---- MODULE Spec2Model ----
(***************************************************************************)
(* Model of the calculation core of the Chandur-Hess preload calculator:   *)
(* src/src/core/preload.py (preload model) and src/src/core/torque.py      *)
(* (torque / stress / risk model), together with the call sequences of     *)
(* their callers in src/src/core/example.py.                               *)
(*                                                                         *)
(* Numbers.  The core works on Python floats.  A number is modelled as an  *)
(* exact rational [n |-> numerator, d |-> denominator] in lowest terms     *)
(* with d > 0; the record with d = 0 stands for "the evaluation of this    *)
(* expression raised ZeroDivisionError" and is absorbing for every         *)
(* arithmetic operator, as an exception is for the rest of an expression.  *)
(* Rounding, overflow to inf and underflow to 0.0 of IEEE doubles are not  *)
(* modelled: every result below is the exact value of the expression the   *)
(* code evaluates.                                                         *)
(*                                                                         *)
(* State.  The functions are pure; the state is the sequence of calls the  *)
(* caller has made in its current computation (hist), each with the        *)
(* arguments it passed and the outcome it got.  A computation starts with  *)
(* a call on the caller's inputs, goes on with calls whose arguments come  *)
(* from the earlier results, and ends when the caller moves on (Finish).   *)
(***************************************************************************)
EXTENDS Integers, Sequences, FiniteSets, TLC

VARIABLES hist, frames, app

vars == <<hist, frames, app>>

\* the variables the sequential callers leave alone, those the concurrent callers
\* leave alone, and those the app leaves alone
not_core == <<frames, app>>
not_callers == <<hist, app>>
not_app == <<hist, frames>>

(***************************************************************************)
(* Bounds of the argument sets.                                            *)
(***************************************************************************)
MaxTorque == 3
MaxPitch == 2
MaxPreload == 2
MaxSafety == 8
MaxMinSafety == 4
MaxDiameter == 3
MaxYield == 2
MaxStress == 2
MaxKFactor == 3
MaxUncertainty == 3
NumCallers == 2
MaxScale == 3

(***************************************************************************)
(* Arithmetic of Python's float operators, on exact rationals.             *)
(***************************************************************************)
Abs(x) == IF x < 0 THEN -x ELSE x

RECURSIVE Gcd(_, _)
Gcd(a, b) == IF b = 0 THEN a ELSE Gcd(b, a % b)

\* the fraction n/d (d # 0) in lowest terms with a positive denominator
R(n, d) ==
    LET g == Gcd(Abs(n), Abs(d))
        s == IF d < 0 THEN -1 ELSE 1
    IN  [n |-> (s * n) \div g, d |-> (s * d) \div g]

\* an expression whose evaluation raised ZeroDivisionError
ZeroDivision == [n |-> 1, d |-> 0]

Raised(x) == x.d = 0

Zero == R(0, 1)

\* a + b
RAdd(a, b) ==
    IF Raised(a) \/ Raised(b) THEN ZeroDivision
    ELSE LET g == Gcd(a.d, b.d)
         IN  R(a.n * (b.d \div g) + b.n * (a.d \div g), (a.d \div g) * b.d)

\* -a
RNeg(a) == IF Raised(a) THEN ZeroDivision ELSE [n |-> -a.n, d |-> a.d]

\* a - b
RSub(a, b) == RAdd(a, RNeg(b))

\* a * b
RMul(a, b) ==
    IF Raised(a) \/ Raised(b) THEN ZeroDivision
    ELSE LET g1 == Gcd(Abs(a.n), b.d)
             g2 == Gcd(Abs(b.n), a.d)
         IN  R((a.n \div g1) * (b.n \div g2), (a.d \div g2) * (b.d \div g1))

\* a / b: float division raises ZeroDivisionError when b == 0
RDiv(a, b) ==
    IF Raised(a) \/ Raised(b) THEN ZeroDivision
    ELSE IF b.n = 0 THEN ZeroDivision
    ELSE RMul(a, R(b.d, b.n))

\* a < b, a <= b, a > b, a >= b on numbers
RLt(a, b) == RSub(a, b).n < 0
RLe(a, b) == RSub(a, b).n <= 0
RGt(a, b) == RLt(b, a)
RGe(a, b) == RLe(b, a)

RAbs(a) == IF a.n < 0 THEN RNeg(a) ELSE a

\* math.pi, as the rational approximation 355/113 (error below 3e-7)
Pi == R(355, 113)

(***************************************************************************)
(* Outcomes of a call: the returned tuple of values, or the raised error.  *)
(***************************************************************************)
Return(v) == [out |-> "ok", val |-> v]
Raise(e) == [out |-> e, val |-> <<>>]

\* return x: the exception raised while evaluating x propagates
ReturnNum(x) == IF Raised(x) THEN Raise("ZeroDivisionError") ELSE Return(<<x>>)

(***************************************************************************)
(* src/src/core/preload.py                                                 *)
(***************************************************************************)
\* mutant: the torques are added instead of subtracted
calculate_preload_sum(tightening_torque, removal_torque, thread_pitch) ==
    IF RLe(thread_pitch, Zero) THEN Raise("ValueError")
    ELSE ReturnNum(RDiv(RMul(RAdd(tightening_torque, removal_torque), Pi), thread_pitch))

\* mutant: the guard is thread_pitch < 0
calculate_preload_lt(tightening_torque, removal_torque, thread_pitch) ==
    IF RLt(thread_pitch, Zero) THEN Raise("ValueError")
    ELSE ReturnNum(RDiv(RMul(RSub(tightening_torque, removal_torque), Pi), thread_pitch))

\* mutant: the pitch multiplies instead of dividing
calculate_preload_times(tightening_torque, removal_torque, thread_pitch) ==
    IF RLe(thread_pitch, Zero) THEN Raise("ValueError")
    ELSE ReturnNum(RMul(RMul(RSub(tightening_torque, removal_torque), Pi), thread_pitch))

\* mutant: Equation 3 without pi
calculate_preload_nopi(tightening_torque, removal_torque, thread_pitch) ==
    IF RLe(thread_pitch, Zero) THEN Raise("ValueError")
    ELSE ReturnNum(RDiv(RSub(tightening_torque, removal_torque), thread_pitch))

calculate_preload(tightening_torque, removal_torque, thread_pitch) ==
    IF RLe(thread_pitch, Zero) THEN Raise("ValueError")
    ELSE ReturnNum(RDiv(RMul(RSub(tightening_torque, removal_torque), Pi), thread_pitch))

\* mutant: Equation 6 without pi in the denominator
calculate_final_torque_nopi(initial_torque, removal_torque, initial_preload, desired_preload, thread_pitch, use_ratio_method) ==
    IF RLe(thread_pitch, Zero) THEN Raise("ValueError")
    ELSE IF RLe(initial_torque, removal_torque) THEN Raise("ValueError")
    ELSE LET ratio_method == RMul(initial_torque, RDiv(desired_preload, initial_preload))
             exact_method == RDiv(RMul(RMul(thread_pitch, initial_torque), desired_preload),
                                  RSub(initial_torque, removal_torque))
         IN  IF Raised(ratio_method) THEN Raise("ZeroDivisionError")
             ELSE IF Raised(exact_method) THEN Raise("ZeroDivisionError")
             ELSE ReturnNum(IF use_ratio_method THEN ratio_method ELSE exact_method)

\* mutant: the flag selects the other method
calculate_final_torque_swapped(initial_torque, removal_torque, initial_preload, desired_preload, thread_pitch, use_ratio_method) ==
    IF RLe(thread_pitch, Zero) THEN Raise("ValueError")
    ELSE IF RLe(initial_torque, removal_torque) THEN Raise("ValueError")
    ELSE LET ratio_method == RMul(initial_torque, RDiv(desired_preload, initial_preload))
             exact_method == RDiv(RMul(RMul(thread_pitch, initial_torque), desired_preload),
                                  RMul(Pi, RSub(initial_torque, removal_torque)))
         IN  IF Raised(ratio_method) THEN Raise("ZeroDivisionError")
             ELSE IF Raised(exact_method) THEN Raise("ZeroDivisionError")
             ELSE ReturnNum(IF use_ratio_method THEN exact_method ELSE ratio_method)

\* mutant: Equation 6 without the thread pitch
calculate_final_torque_nopitch(initial_torque, removal_torque, initial_preload, desired_preload, thread_pitch, use_ratio_method) ==
    IF RLe(thread_pitch, Zero) THEN Raise("ValueError")
    ELSE IF RLe(initial_torque, removal_torque) THEN Raise("ValueError")
    ELSE LET ratio_method == RMul(initial_torque, RDiv(desired_preload, initial_preload))
             exact_method == RDiv(RMul(initial_torque, desired_preload),
                                  RMul(Pi, RSub(initial_torque, removal_torque)))
         IN  IF Raised(ratio_method) THEN Raise("ZeroDivisionError")
             ELSE IF Raised(exact_method) THEN Raise("ZeroDivisionError")
             ELSE ReturnNum(IF use_ratio_method THEN ratio_method ELSE exact_method)

\* mutant: the ratio method is returned whatever the flag
calculate_final_torque_always_ratio(initial_torque, removal_torque, initial_preload, desired_preload, thread_pitch, use_ratio_method) ==
    IF RLe(thread_pitch, Zero) THEN Raise("ValueError")
    ELSE IF RLe(initial_torque, removal_torque) THEN Raise("ValueError")
    ELSE LET ratio_method == RMul(initial_torque, RDiv(desired_preload, initial_preload))
             exact_method == RDiv(RMul(RMul(thread_pitch, initial_torque), desired_preload),
                                  RMul(Pi, RSub(initial_torque, removal_torque)))
         IN  IF Raised(ratio_method) THEN Raise("ZeroDivisionError")
             ELSE IF Raised(exact_method) THEN Raise("ZeroDivisionError")
             ELSE ReturnNum(ratio_method)

\* mutant: Equation 6 with the sum of the torques in the denominator
calculate_final_torque_sum(initial_torque, removal_torque, initial_preload, desired_preload, thread_pitch, use_ratio_method) ==
    IF RLe(thread_pitch, Zero) THEN Raise("ValueError")
    ELSE IF RLe(initial_torque, removal_torque) THEN Raise("ValueError")
    ELSE LET ratio_method == RMul(initial_torque, RDiv(desired_preload, initial_preload))
             exact_method == RDiv(RMul(RMul(thread_pitch, initial_torque), desired_preload),
                                  RMul(Pi, RAdd(initial_torque, removal_torque)))
         IN  IF Raised(ratio_method) THEN Raise("ZeroDivisionError")
             ELSE IF Raised(exact_method) THEN Raise("ZeroDivisionError")
             ELSE ReturnNum(IF use_ratio_method THEN ratio_method ELSE exact_method)

calculate_final_torque(initial_torque, removal_torque, initial_preload, desired_preload, thread_pitch, use_ratio_method) ==
    IF RLe(thread_pitch, Zero) THEN Raise("ValueError")
    ELSE IF RLe(initial_torque, removal_torque) THEN Raise("ValueError")
    ELSE LET ratio_method == RMul(initial_torque, RDiv(desired_preload, initial_preload))
             exact_method == RDiv(RMul(RMul(thread_pitch, initial_torque), desired_preload),
                                  RMul(Pi, RSub(initial_torque, removal_torque)))
         IN  IF Raised(ratio_method) THEN Raise("ZeroDivisionError")
             ELSE IF Raised(exact_method) THEN Raise("ZeroDivisionError")
             ELSE ReturnNum(IF use_ratio_method THEN ratio_method ELSE exact_method)

\* default of the parameter use_ratio_method
use_ratio_method_default == FALSE

\* return a, b: a tuple of two numbers
ReturnPair(a, b) ==
    IF Raised(a) \/ Raised(b) THEN Raise("ZeroDivisionError") ELSE Return(<<a, b>>)

calculate_self_loosening(tightening_torque, removal_torque) ==
    ReturnNum(RDiv(RSub(tightening_torque, removal_torque), R(2, 1)))

\* mutant: the difference of the torques, as in calculate_self_loosening
calculate_primary_locking_diff(tightening_torque, removal_torque) ==
    ReturnNum(RDiv(RSub(tightening_torque, removal_torque), R(2, 1)))

calculate_primary_locking(tightening_torque, removal_torque) ==
    ReturnNum(RDiv(RAdd(tightening_torque, removal_torque), R(2, 1)))

\* mutant: the two percentages are exchanged
estimate_uncertainty_swapped(torque_value, is_lubricated) ==
    LET uncertainty_percent == IF is_lubricated THEN R(35, 1) ELSE R(25, 1)
        uncertainty_value == RMul(RDiv(uncertainty_percent, R(100, 1)), torque_value)
    IN  ReturnPair(uncertainty_percent, uncertainty_value)

estimate_uncertainty(torque_value, is_lubricated) ==
    LET uncertainty_percent == IF is_lubricated THEN R(25, 1) ELSE R(35, 1)
        uncertainty_value == RMul(RDiv(uncertainty_percent, R(100, 1)), torque_value)
    IN  ReturnPair(uncertainty_percent, uncertainty_value)

\* default of the parameter is_lubricated of estimate_uncertainty
is_lubricated_default == FALSE

\* mutant: the percentage is used as the factor, without / 100
calculate_preload_range_percent(preload, uncertainty_percent) ==
    LET uncertainty_factor == uncertainty_percent
        min_preload == RMul(preload, RSub(R(1, 1), uncertainty_factor))
        max_preload == RMul(preload, RAdd(R(1, 1), uncertainty_factor))
    IN  ReturnPair(min_preload, max_preload)

calculate_preload_range(preload, uncertainty_percent) ==
    LET uncertainty_factor == RDiv(uncertainty_percent, R(100, 1))
        min_preload == RMul(preload, RSub(R(1, 1), uncertainty_factor))
        max_preload == RMul(preload, RAdd(R(1, 1), uncertainty_factor))
    IN  ReturnPair(min_preload, max_preload)

(***************************************************************************)
(* src/src/core/torque.py                                                  *)
(***************************************************************************)
\* mutant: torque / k_factor * screw_diameter, without the parentheses
estimate_preload_from_torque_noparen(torque, screw_diameter, k_factor) ==
    IF RLe(screw_diameter, Zero) THEN Raise("ValueError")
    ELSE IF RLe(k_factor, Zero) THEN Raise("ValueError")
    ELSE ReturnNum(RMul(RDiv(torque, k_factor), screw_diameter))

estimate_preload_from_torque(torque, screw_diameter, k_factor) ==
    IF RLe(screw_diameter, Zero) THEN Raise("ValueError")
    ELSE IF RLe(k_factor, Zero) THEN Raise("ValueError")
    ELSE ReturnNum(RDiv(torque, RMul(k_factor, screw_diameter)))

\* default of the parameter k_factor: 0.2
k_factor_default == R(2, 10)

\* mutant: a non-positive preload is rejected as well
calculate_stress_from_preload_strict(preload, tensile_area) ==
    IF RLe(tensile_area, Zero) THEN Raise("ValueError")
    ELSE IF RLe(preload, Zero) THEN Raise("ValueError")
    ELSE ReturnNum(RDiv(preload, tensile_area))

\* mutant: the guard is tensile_area < 0
calculate_stress_from_preload_lt(preload, tensile_area) ==
    IF RLt(tensile_area, Zero) THEN Raise("ValueError")
    ELSE ReturnNum(RDiv(preload, tensile_area))

calculate_stress_from_preload(preload, tensile_area) ==
    IF RLe(tensile_area, Zero) THEN Raise("ValueError")
    ELSE ReturnNum(RDiv(preload, tensile_area))

\* mutant: the guard is stress < 0
calculate_safety_factor_lt(stress, yield_strength) ==
    IF RLt(stress, Zero) THEN Raise("ValueError")
    ELSE IF RLe(yield_strength, Zero) THEN Raise("ValueError")
    ELSE ReturnNum(RDiv(yield_strength, stress))

calculate_safety_factor(stress, yield_strength) ==
    IF RLe(stress, Zero) THEN Raise("ValueError")
    ELSE IF RLe(yield_strength, Zero) THEN Raise("ValueError")
    ELSE ReturnNum(RDiv(yield_strength, stress))

\* the literal 3.0 of assess_risk
LowRiskAbove == R(3, 1)

\* mutant: the Medium band starts strictly above min_safety_factor
assess_risk_gt(safety_factor, min_safety_factor) ==
    IF RLt(safety_factor, Zero) THEN Raise("ValueError")
    ELSE IF RGt(safety_factor, LowRiskAbove)
         THEN Return(<<"Low", "Safe for use with standard protocol">>)
    ELSE IF RGt(safety_factor, min_safety_factor)
         THEN Return(<<"Medium", "Safe for use, but consider more frequent check-ups">>)
    ELSE Return(<<"High",
                  "Not recommended, consider alternative implant system or reduced loading">>)

\* mutant: the comparison with min_safety_factor comes first
assess_risk_min_first(safety_factor, min_safety_factor) ==
    IF RLt(safety_factor, Zero) THEN Raise("ValueError")
    ELSE IF RLt(safety_factor, min_safety_factor)
         THEN Return(<<"High",
                       "Not recommended, consider alternative implant system or reduced loading">>)
    ELSE IF RGt(safety_factor, LowRiskAbove)
         THEN Return(<<"Low", "Safe for use with standard protocol">>)
    ELSE Return(<<"Medium", "Safe for use, but consider more frequent check-ups">>)

\* mutant: the guard is safety_factor <= 0
assess_risk_le(safety_factor, min_safety_factor) ==
    IF RLe(safety_factor, Zero) THEN Raise("ValueError")
    ELSE IF RGt(safety_factor, LowRiskAbove)
         THEN Return(<<"Low", "Safe for use with standard protocol">>)
    ELSE IF RGe(safety_factor, min_safety_factor)
         THEN Return(<<"Medium", "Safe for use, but consider more frequent check-ups">>)
    ELSE Return(<<"High",
                  "Not recommended, consider alternative implant system or reduced loading">>)

\* mutant: the Medium and High branches carry each other's level
assess_risk_swapped_levels(safety_factor, min_safety_factor) ==
    IF RLt(safety_factor, Zero) THEN Raise("ValueError")
    ELSE IF RGt(safety_factor, LowRiskAbove)
         THEN Return(<<"Low", "Safe for use with standard protocol">>)
    ELSE IF RGe(safety_factor, min_safety_factor)
         THEN Return(<<"High", "Safe for use, but consider more frequent check-ups">>)
    ELSE Return(<<"Medium",
                  "Not recommended, consider alternative implant system or reduced loading">>)

\* mutant: the four bands of example_conventional_method (2.5, 1.5, 1.0)
assess_risk_four_bands(safety_factor, min_safety_factor) ==
    IF RLt(safety_factor, Zero) THEN Raise("ValueError")
    ELSE IF RGt(safety_factor, R(25, 10))
         THEN Return(<<"Low", "Safe for long-term use with standard maintenance.">>)
    ELSE IF RGt(safety_factor, R(15, 10))
         THEN Return(<<"Medium", "Safe for use, but consider more frequent check-ups.">>)
    ELSE IF RGt(safety_factor, R(1, 1))
         THEN Return(<<"High", "Use with caution and frequent monitoring.">>)
    ELSE Return(<<"Critical", "NOT SAFE FOR USE. Redesign required.">>)

\* mutant: the High band carries the recommendation of the Medium band
assess_risk_high_text(safety_factor, min_safety_factor) ==
    IF RLt(safety_factor, Zero) THEN Raise("ValueError")
    ELSE IF RGt(safety_factor, LowRiskAbove)
         THEN Return(<<"Low", "Safe for use with standard protocol">>)
    ELSE IF RGe(safety_factor, min_safety_factor)
         THEN Return(<<"Medium", "Safe for use, but consider more frequent check-ups">>)
    ELSE Return(<<"High", "Safe for use, but consider more frequent check-ups">>)

assess_risk(safety_factor, min_safety_factor) ==
    IF RLt(safety_factor, Zero) THEN Raise("ValueError")
    ELSE IF RGt(safety_factor, LowRiskAbove)
         THEN Return(<<"Low", "Safe for use with standard protocol">>)
    ELSE IF RGe(safety_factor, min_safety_factor)
         THEN Return(<<"Medium", "Safe for use, but consider more frequent check-ups">>)
    ELSE Return(<<"High",
                  "Not recommended, consider alternative implant system or reduced loading">>)

\* the characters of the recommendation strings of assess_risk
Characters(recommendation) ==
    CASE recommendation = "Safe for use with standard protocol" ->
             <<"S", "a", "f", "e", " ", "f", "o", "r", " ", "u", "s", "e", " ", "w", "i",
             "t", "h", " ", "s", "t", "a", "n", "d", "a", "r", "d", " ", "p", "r", "o", "t",
             "o", "c", "o", "l">>
      [] recommendation = "Safe for use, but consider more frequent check-ups" ->
             <<"S", "a", "f", "e", " ", "f", "o", "r", " ", "u", "s", "e", ",", " ", "b",
             "u", "t", " ", "c", "o", "n", "s", "i", "d", "e", "r", " ", "m", "o", "r", "e",
             " ", "f", "r", "e", "q", "u", "e", "n", "t", " ", "c", "h", "e", "c", "k", "-",
             "u", "p", "s">>
      [] recommendation = "Not recommended, consider alternative implant system or reduced loading" ->
             <<"N", "o", "t", " ", "r", "e", "c", "o", "m", "m", "e", "n", "d", "e", "d",
             ",", " ", "c", "o", "n", "s", "i", "d", "e", "r", " ", "a", "l", "t", "e", "r",
             "n", "a", "t", "i", "v", "e", " ", "i", "m", "p", "l", "a", "n", "t", " ", "s",
             "y", "s", "t", "e", "m", " ", "o", "r", " ", "r", "e", "d", "u", "c", "e", "d",
             " ", "l", "o", "a", "d", "i", "n", "g">>
      [] OTHER -> <<>>

\* str.lower on a sequence of characters
UpperCase == <<"A", "B", "C", "D", "E", "F", "G", "H", "I", "J", "K", "L", "M", "N", "O", "P", "Q", "R", "S", "T", "U", "V", "W", "X", "Y", "Z">>
LowerCase == <<"a", "b", "c", "d", "e", "f", "g", "h", "i", "j", "k", "l", "m", "n", "o", "p", "q", "r", "s", "t", "u", "v", "w", "x", "y", "z">>
lower(text) ==
    [k \in 1..Len(text) |->
        IF \E u \in 1..Len(UpperCase) : UpperCase[u] = text[k]
        THEN LowerCase[CHOOSE u \in 1..Len(UpperCase) : UpperCase[u] = text[k]]
        ELSE text[k]]

\* the operator "in" on strings: phrase occurs in text as a contiguous run
Contains(text, phrase) ==
    \E k \in 0..(Len(text) - Len(phrase)) : SubSeq(text, k + 1, k + Len(phrase)) = phrase

\* the phrase callers look for in the lowered recommendation
NotRecommended == <<"n", "o", "t", " ", "r", "e", "c", "o", "m", "m", "e", "n", "d", "e", "d">>

\* the legend example_implant_systems prints under its table:
\* "Risk levels: Low (SF > 3.0), Medium (1.5 < SF <= 3.0), High (SF <= 1.5)"
RiskLegend(safety_factor) ==
    IF RGt(safety_factor, R(3, 1)) THEN "Low"
    ELSE IF RLt(R(15, 10), safety_factor) /\ RLe(safety_factor, R(3, 1)) THEN "Medium"
    ELSE "High"

\* default of the parameter min_safety_factor: 1.5
min_safety_factor_default == R(15, 10)

\* the literal 0.9382 of calculate_tensile_area
EffectiveDiameterFactor == R(9382, 10000)

\* mutant: the effective diameter is not squared
calculate_tensile_area_linear(nominal_diameter, thread_pitch) ==
    IF RLe(nominal_diameter, Zero) THEN Raise("ValueError")
    ELSE IF RLe(thread_pitch, Zero) THEN Raise("ValueError")
    ELSE LET effective_diameter ==
                 RSub(nominal_diameter, RMul(EffectiveDiameterFactor, thread_pitch))
         IN  ReturnNum(RMul(RDiv(Pi, R(4, 1)), effective_diameter))

\* mutant: an effective diameter <= 0 is rejected
calculate_tensile_area_floor(nominal_diameter, thread_pitch) ==
    IF RLe(nominal_diameter, Zero) THEN Raise("ValueError")
    ELSE IF RLe(thread_pitch, Zero) THEN Raise("ValueError")
    ELSE LET effective_diameter ==
                 RSub(nominal_diameter, RMul(EffectiveDiameterFactor, thread_pitch))
         IN  IF RLe(effective_diameter, Zero) THEN Raise("ValueError")
             ELSE ReturnNum(RMul(RDiv(Pi, R(4, 1)), RMul(effective_diameter, effective_diameter)))

calculate_tensile_area(nominal_diameter, thread_pitch) ==
    IF RLe(nominal_diameter, Zero) THEN Raise("ValueError")
    ELSE IF RLe(thread_pitch, Zero) THEN Raise("ValueError")
    ELSE LET effective_diameter ==
                 RSub(nominal_diameter, RMul(EffectiveDiameterFactor, thread_pitch))
         IN  ReturnNum(RMul(RDiv(Pi, R(4, 1)), RMul(effective_diameter, effective_diameter)))

\* mutant: 30 % for unlubricated screws
calculate_torque_range_thirty(nominal_torque, is_lubricated) ==
    LET uncertainty == IF is_lubricated THEN R(25, 1) ELSE R(30, 1)
        uncertainty_factor == RDiv(uncertainty, R(100, 1))
        min_torque == RMul(nominal_torque, RSub(R(1, 1), uncertainty_factor))
        max_torque == RMul(nominal_torque, RAdd(R(1, 1), uncertainty_factor))
    IN  ReturnPair(min_torque, max_torque)

calculate_torque_range(nominal_torque, is_lubricated) ==
    LET uncertainty == IF is_lubricated THEN R(25, 1) ELSE R(35, 1)
        uncertainty_factor == RDiv(uncertainty, R(100, 1))
        min_torque == RMul(nominal_torque, RSub(R(1, 1), uncertainty_factor))
        max_torque == RMul(nominal_torque, RAdd(R(1, 1), uncertainty_factor))
    IN  ReturnPair(min_torque, max_torque)

\* default of the parameter is_lubricated of calculate_torque_range
torque_range_is_lubricated_default == FALSE

(***************************************************************************)
(* Argument sets.                                                          *)
(***************************************************************************)
Nums(lo, hi, den) == {R(k, den) : k \in lo..hi}

TorqueVals == Nums(-1, MaxTorque, 1)
PitchVals == Nums(-1, MaxPitch, 2)
PreloadVals == Nums(-1, MaxPreload, 1)
DiameterVals == Nums(-1, MaxDiameter, 2)
KFactorVals == Nums(-1, MaxKFactor, 10)
StressVals == Nums(-1, MaxStress, 1)
YieldVals == Nums(-1, MaxYield, 1)
SafetyVals == Nums(-1, MaxSafety, 2)
MinSafetyVals == Nums(-1, MaxMinSafety, 1)

\* uncertainty percentages: multiples of 50 from -50 on, and the 9, 25 and 35 of the callers
UncertaintyVals == {R(50 * k, 1) : k \in -1..MaxUncertainty} \cup {R(9, 1), R(25, 1), R(35, 1)}

\* the torque and the preload of the documented examples: 35 N-cm and 400 N
NominalTorqueVals == TorqueVals \cup {R(35, 1)}
RangePreloadVals == PreloadVals \cup {R(400, 1)}

\* caller inputs, with the example of the paper among them: initial torque 25 N-cm,
\* removal torque 21.4 N-cm, thread pitch 0.04 cm, desired preload 400 N; 35 N-cm is
\* the nominal torque of the examples, 282.7 N the initial preload to one decimal
PreloadArgs ==
    (TorqueVals \X TorqueVals \X PitchVals)
        \cup {<<R(25, 1), R(214, 10), R(4, 100)>>, <<R(35, 1), R(214, 10), R(4, 100)>>,
              <<R(-1, 1), R(-2, 1), R(1, 2)>>}

\* the share of the set torque a worn driver delivers (85 % in the clinical scenario)
ScaleVals == {R(k, 4) : k \in 1..MaxScale} \cup {R(85, 100)}

FinalTorqueArgs ==
    (TorqueVals \X TorqueVals \X PreloadVals \X PreloadVals \X PitchVals)
        \cup {<<R(25, 1), R(214, 10), R(2827, 10), R(400, 1), R(4, 100)>>}

\* yield strengths that put the safety factor on an edge of the bands of
\* assess_risk: 1.5 times and 3.0 times the stress
BandEdges == {min_safety_factor_default, LowRiskAbove}

\* (nominal diameter, thread pitch) pairs in mm: diameters in halves with the
\* pitches k * 2500/4691, for which 0.9382 * pitch is k/2, and the pair (0.9382, 1)
TensileArgs ==
    (DiameterVals \X {R(2500 * k, 4691) : k \in -1..MaxPitch}) \cup {<<R(9382, 10000), R(1, 1)>>}

(***************************************************************************)
(* Calls.                                                                  *)
(***************************************************************************)
Call(op, args, res) == [op |-> op, args |-> args, out |-> res.out, val |-> res.val]

Last == hist[Len(hist)]

(***************************************************************************)
(* Concurrent callers.  Each caller runs one call at a time in a frame of   *)
(* its own: the parameters, the local variables assigned so far and, at the *)
(* end, the outcome.  The callers take their steps in any interleaving.     *)
(***************************************************************************)
Callers == 1..NumCallers

NoOutcome == [out |-> "", val |-> <<>>]
IdleFrame == [pc |-> "idle", op |-> "", args |-> <<>>, locals |-> <<>>, res |-> NoOutcome]

\* the calls the concurrent callers make: every core operation, on arguments it
\* accepts and on arguments it rejects
ConcurrentCalls ==
    { <<"calculate_preload", <<R(1, 1), Zero, R(1, 2)>>>>,
      <<"calculate_preload", <<R(1, 1), Zero, Zero>>>>,
      <<"calculate_final_torque", <<R(2, 1), R(1, 1), R(1, 1), R(2, 1), R(1, 2), FALSE>>>>,
      <<"calculate_final_torque", <<R(2, 1), R(1, 1), R(1, 1), R(2, 1), R(1, 2), TRUE>>>>,
      <<"calculate_final_torque", <<R(2, 1), R(1, 1), Zero, R(2, 1), R(1, 2), FALSE>>>>,
      <<"calculate_self_loosening", <<R(3, 1), R(1, 1)>>>>,
      <<"calculate_self_loosening", <<R(2, 1), R(1, 1)>>>>,
      <<"calculate_primary_locking", <<R(3, 1), R(1, 1)>>>>,
      <<"calculate_primary_locking", <<R(2, 1), R(1, 1)>>>>,
      <<"estimate_uncertainty", <<R(100, 1), FALSE>>>>,
      <<"estimate_uncertainty", <<R(100, 1), TRUE>>>>,
      <<"calculate_preload_range", <<R(400, 1), R(35, 1)>>>>,
      <<"calculate_preload_range", <<R(100, 1), R(25, 1)>>>>,
      <<"estimate_preload_from_torque", <<R(1, 1), R(1, 2), R(2, 10)>>>>,
      <<"estimate_preload_from_torque", <<R(1, 1), Zero, R(2, 10)>>>>,
      <<"calculate_stress_from_preload", <<R(2, 1), R(1, 1)>>>>,
      <<"calculate_stress_from_preload", <<R(2, 1), Zero>>>>,
      <<"calculate_safety_factor", <<R(1, 1), R(2, 1)>>>>,
      <<"calculate_safety_factor", <<Zero, R(2, 1)>>>>,
      <<"assess_risk", <<R(1, 1), R(15, 10)>>>>,
      <<"assess_risk", <<R(4, 1), R(15, 10)>>>>,
      <<"assess_risk", <<R(-1, 1), R(15, 10)>>>>,
      <<"calculate_tensile_area", <<R(1, 1), R(2500, 4691)>>>>,
      <<"calculate_tensile_area", <<Zero, R(2500, 4691)>>>>,
      <<"calculate_torque_range", <<R(35, 1), FALSE>>>>,
      <<"calculate_torque_range", <<R(35, 1), TRUE>>>> }

\* the outcome of the call op(a) made by a caller that runs alone
RunAlone(op, a) ==
    CASE op = "calculate_preload" -> calculate_preload(a[1], a[2], a[3])
      [] op = "calculate_final_torque" ->
             calculate_final_torque(a[1], a[2], a[3], a[4], a[5], a[6])
      [] op = "calculate_self_loosening" -> calculate_self_loosening(a[1], a[2])
      [] op = "calculate_primary_locking" -> calculate_primary_locking(a[1], a[2])
      [] op = "estimate_uncertainty" -> estimate_uncertainty(a[1], a[2])
      [] op = "calculate_preload_range" -> calculate_preload_range(a[1], a[2])
      [] op = "estimate_preload_from_torque" ->
             estimate_preload_from_torque(a[1], a[2], a[3])
      [] op = "calculate_stress_from_preload" -> calculate_stress_from_preload(a[1], a[2])
      [] op = "calculate_safety_factor" -> calculate_safety_factor(a[1], a[2])
      [] op = "assess_risk" -> assess_risk(a[1], a[2])
      [] op = "calculate_tensile_area" -> calculate_tensile_area(a[1], a[2])
      [] op = "calculate_torque_range" -> calculate_torque_range(a[1], a[2])

\* the checks at the head of op: TRUE when they raise ValueError
ArgumentsRejected(op, a) ==
    CASE op = "calculate_preload" -> RLe(a[3], Zero)
      [] op = "calculate_final_torque" -> RLe(a[5], Zero) \/ RLe(a[1], a[2])
      [] op = "estimate_preload_from_torque" -> RLe(a[2], Zero) \/ RLe(a[3], Zero)
      [] op = "calculate_stress_from_preload" -> RLe(a[2], Zero)
      [] op = "calculate_safety_factor" -> RLe(a[1], Zero) \/ RLe(a[2], Zero)
      [] op = "assess_risk" -> RLt(a[1], Zero)
      [] op = "calculate_tensile_area" -> RLe(a[1], Zero) \/ RLe(a[2], Zero)
      [] OTHER -> FALSE

\* the number of assignments to local variables in the body of op
Statements(op) ==
    CASE op = "calculate_final_torque" -> 2
      [] op = "estimate_uncertainty" -> 2
      [] op = "calculate_preload_range" -> 3
      [] op = "assess_risk" -> 2
      [] op = "calculate_tensile_area" -> 1
      [] op = "calculate_torque_range" -> 4
      [] OTHER -> 0

\* the value the next assignment of op gives its local variable, from the
\* parameters a and the local variables l assigned so far
Assigned(op, a, l) ==
    LET k == Len(l) + 1
    IN  CASE op = "calculate_final_torque" /\ k = 1 -> RMul(a[1], RDiv(a[4], a[3]))
          [] op = "calculate_final_torque" /\ k = 2 ->
                 RDiv(RMul(RMul(a[5], a[1]), a[4]), RMul(Pi, RSub(a[1], a[2])))
          [] op = "estimate_uncertainty" /\ k = 1 -> IF a[2] THEN R(25, 1) ELSE R(35, 1)
          [] op = "estimate_uncertainty" /\ k = 2 -> RMul(RDiv(l[1], R(100, 1)), a[1])
          [] op = "calculate_preload_range" /\ k = 1 -> RDiv(a[2], R(100, 1))
          [] op = "calculate_preload_range" /\ k = 2 -> RMul(a[1], RSub(R(1, 1), l[1]))
          [] op = "calculate_preload_range" /\ k = 3 -> RMul(a[1], RAdd(R(1, 1), l[1]))
          [] op = "assess_risk" /\ k = 1 ->
                 IF RGt(a[1], LowRiskAbove) THEN "Low"
                 ELSE IF RGe(a[1], a[2]) THEN "Medium" ELSE "High"
          [] op = "assess_risk" /\ k = 2 ->
                 IF RGt(a[1], LowRiskAbove) THEN "Safe for use with standard protocol"
                 ELSE IF RGe(a[1], a[2])
                      THEN "Safe for use, but consider more frequent check-ups"
                 ELSE "Not recommended, consider alternative implant system or reduced loading"
          [] op = "calculate_tensile_area" /\ k = 1 ->
                 RSub(a[1], RMul(EffectiveDiameterFactor, a[2]))
          [] op = "calculate_torque_range" /\ k = 1 -> IF a[2] THEN R(25, 1) ELSE R(35, 1)
          [] op = "calculate_torque_range" /\ k = 2 -> RDiv(l[1], R(100, 1))
          [] op = "calculate_torque_range" /\ k = 3 -> RMul(a[1], RSub(R(1, 1), l[2]))
          [] op = "calculate_torque_range" /\ k = 4 -> RMul(a[1], RAdd(R(1, 1), l[2]))

\* the assignment raised: a division by zero (the strings of assess_risk never do)
AssignmentRaised(op, v) == op # "assess_risk" /\ Raised(v)

\* the return statement of op, on the parameters a and the local variables l
ReturnStatement(op, a, l) ==
    CASE op = "calculate_final_torque" -> ReturnNum(IF a[6] THEN l[1] ELSE l[2])
      [] op = "estimate_uncertainty" -> ReturnPair(l[1], l[2])
      [] op = "calculate_preload_range" -> ReturnPair(l[2], l[3])
      [] op = "assess_risk" -> Return(<<l[1], l[2]>>)
      [] op = "calculate_tensile_area" ->
             ReturnNum(RMul(RDiv(Pi, R(4, 1)), RMul(l[1], l[1])))
      [] op = "calculate_torque_range" -> ReturnPair(l[3], l[4])
      [] OTHER -> RunAlone(op, a)

(***************************************************************************)
(* src/app/app.py: one browser session of the app.  The script runs from    *)
(* top to bottom on every interaction; st.session_state outlives the runs.  *)
(***************************************************************************)
\* what a run puts on the screen, and the widget an interaction comes from
Element(kind, id) == [kind |-> kind, id |-> id]
NoEvent == Element("none", "")

\* the ids of nav_options, and the components that store calculation_results
NavIds ==
    {"welcome", "preload_calculator", "final_torque_calculator", "compare_methods",
     "implant_systems_analysis"}
Calculators == {"preload_calculator", "final_torque_calculator", "compare_methods"}

\* the password the Login button compares the input with, and what a user may type
ConfiguredPassword == "chandur2025"
Passwords == {"", "chandur2025", "chandur2024"}

\* the elements the claim of the gate is about: pages, navigation, report, footer
Gated ==
    {Element("page", id) : id \in NavIds} \cup {Element("nav", id) : id \in NavIds}
        \cup {Element("button", "report"), Element("disabled", "report"),
              Element("text", "footer")}

\* st.session_state: a mapping from the keys that are set to their values
EmptySession == [k \in {} |-> FALSE]
Has(session, key) == key \in DOMAIN session
Set(session, key, value) ==
    [k \in DOMAIN session \cup {key} |-> IF k = key THEN value ELSE session[k]]

\* if key not in st.session_state: st.session_state.key = value
SetDefault(session, key, value) ==
    IF Has(session, key) THEN session ELSE Set(session, key, value)

\* the outcomes of generate_pdf_report(calculation_results): the bytes of the
\* report, or an exception that ends the run
ReportOutcomes == {"bytes", "exception"}

FirstRun ==
    [session |-> EmptySession, input |-> "", event |-> NoEvent, pc |-> "init",
     rendered |-> {}]

Init ==
    /\ hist = <<>>
    /\ frames = [t \in Callers |-> IdleFrame]
    /\ app = FirstRun

\* a caller calls calculate_preload on its inputs
Call_calculate_preload ==
    /\ hist = <<>>
    /\ \E a \in PreloadArgs :
        hist' = <<Call("calculate_preload", a, calculate_preload(a[1], a[2], a[3]))>>
    /\ UNCHANGED not_core

\* a caller calls calculate_final_torque on its inputs, with or without the flag
Call_calculate_final_torque ==
    /\ hist = <<>>
    /\ \E a \in FinalTorqueArgs :
        \/ hist' = <<Call("calculate_final_torque", a,
                          calculate_final_torque(a[1], a[2], a[3], a[4], a[5],
                                                 use_ratio_method_default))>>
        \/ \E flag \in BOOLEAN :
             hist' = <<Call("calculate_final_torque", Append(a, flag),
                            calculate_final_torque(a[1], a[2], a[3], a[4], a[5], flag))>>
    /\ UNCHANGED not_core

Call_calculate_self_loosening ==
    /\ hist = <<>>
    /\ \E Tt \in TorqueVals, Tr \in TorqueVals :
        hist' = <<Call("calculate_self_loosening", <<Tt, Tr>>, calculate_self_loosening(Tt, Tr))>>
    /\ UNCHANGED not_core

\* a caller calls estimate_uncertainty on its inputs, with or without is_lubricated
Call_estimate_uncertainty ==
    /\ hist = <<>>
    /\ \E T \in NominalTorqueVals :
        \/ hist' = <<Call("estimate_uncertainty", <<T>>,
                          estimate_uncertainty(T, is_lubricated_default))>>
        \/ \E flag \in BOOLEAN :
             hist' = <<Call("estimate_uncertainty", <<T, flag>>, estimate_uncertainty(T, flag))>>
    /\ UNCHANGED not_core

Call_calculate_preload_range ==
    /\ hist = <<>>
    /\ \E P \in RangePreloadVals, u \in UncertaintyVals :
        hist' = <<Call("calculate_preload_range", <<P, u>>, calculate_preload_range(P, u))>>
    /\ UNCHANGED not_core

\* a caller calls calculate_torque_range on its inputs, with or without is_lubricated
Call_calculate_torque_range ==
    /\ hist = <<>>
    /\ \E T \in NominalTorqueVals :
        \/ hist' = <<Call("calculate_torque_range", <<T>>,
                          calculate_torque_range(T, torque_range_is_lubricated_default))>>
        \/ \E flag \in BOOLEAN :
             hist' = <<Call("calculate_torque_range", <<T, flag>>, calculate_torque_range(T, flag))>>
    /\ UNCHANGED not_core

\* a caller calls estimate_preload_from_torque on its inputs, with or without k_factor
Call_estimate_preload_from_torque ==
    /\ hist = <<>>
    /\ \E T \in TorqueVals, d \in DiameterVals :
        \/ hist' = <<Call("estimate_preload_from_torque", <<T, d>>,
                          estimate_preload_from_torque(T, d, k_factor_default))>>
        \/ \E K \in KFactorVals :
             hist' = <<Call("estimate_preload_from_torque", <<T, d, K>>,
                            estimate_preload_from_torque(T, d, K))>>
    /\ UNCHANGED not_core

Call_calculate_stress_from_preload ==
    /\ hist = <<>>
    /\ \E F \in PreloadVals, A \in StressVals :
        hist' = <<Call("calculate_stress_from_preload", <<F, A>>,
                       calculate_stress_from_preload(F, A))>>
    /\ UNCHANGED not_core

Call_calculate_safety_factor ==
    /\ hist = <<>>
    /\ \E s \in StressVals, y \in YieldVals :
        hist' = <<Call("calculate_safety_factor", <<s, y>>, calculate_safety_factor(s, y))>>
    /\ UNCHANGED not_core

\* a caller calls assess_risk on its inputs, with or without min_safety_factor
Call_assess_risk ==
    /\ hist = <<>>
    /\ \E sf \in SafetyVals :
        \/ hist' = <<Call("assess_risk", <<sf>>, assess_risk(sf, min_safety_factor_default))>>
        \/ \E m \in MinSafetyVals \cup {min_safety_factor_default} :
             hist' = <<Call("assess_risk", <<sf, m>>, assess_risk(sf, m))>>
    /\ UNCHANGED not_core

Call_calculate_tensile_area ==
    /\ hist = <<>>
    /\ \E a \in TensileArgs :
        hist' = <<Call("calculate_tensile_area", a, calculate_tensile_area(a[1], a[2]))>>
    /\ UNCHANGED not_core

(***************************************************************************)
(* Calls on earlier results, in the order the callers make them.           *)
(***************************************************************************)
\* initial_preload = calculate_preload(Tt, Tr, p) is passed on to
\* calculate_final_torque(Tt, Tr, initial_preload, desired_preload, p)
Then_calculate_final_torque ==
    /\ Len(hist) = 1
    /\ Last.op = "calculate_preload"
    /\ Last.out = "ok"
    /\ \E dp \in RangePreloadVals \cup {Last.val[1]} :
         LET Tt == Last.args[1]
             Tr == Last.args[2]
             p == Last.args[3]
             ip == Last.val[1]
         IN  hist' = Append(hist,
                 Call("calculate_final_torque", <<Tt, Tr, ip, dp, p>>,
                      calculate_final_torque(Tt, Tr, ip, dp, p, use_ratio_method_default)))
    /\ UNCHANGED not_core

\* the preload at the final torque, with the removal torque in the proportion
\* Tr / Tt measured at the initial torque
Then_calculate_preload_at_final_torque ==
    /\ Len(hist) = 2
    /\ hist[1].op = "calculate_preload"
    /\ Last.op = "calculate_final_torque"
    /\ Last.out = "ok"
    /\ Last.args[1] # Zero
    /\ LET Tf == Last.val[1]
           Tr == RDiv(RMul(Tf, Last.args[2]), Last.args[1])
           pitch == Last.args[5]
       IN  hist' = Append(hist, Call("calculate_preload", <<Tf, Tr, pitch>>,
                                     calculate_preload(Tf, Tr, pitch)))
    /\ UNCHANGED not_core

\* the same call again with use_ratio_method=True
Then_calculate_final_torque_ratio ==
    /\ Len(hist) = 2
    /\ hist[1].op = "calculate_preload"
    /\ Last.op = "calculate_final_torque"
    /\ Last.out = "ok"
    /\ LET a == Last.args
       IN  hist' = Append(hist,
               Call("calculate_final_torque", Append(a, TRUE),
                    calculate_final_torque(a[1], a[2], a[3], a[4], a[5], TRUE)))
    /\ UNCHANGED not_core

\* the final-torque page: the call with use_ratio_method=False on the user's
\* inputs is followed by the same call with use_ratio_method=True
Then_calculate_final_torque_both ==
    /\ Len(hist) = 1
    /\ Last.op = "calculate_final_torque"
    /\ Len(Last.args) = 6
    /\ Last.args[6] = FALSE
    /\ Last.out = "ok"
    /\ LET a == Last.args
       IN  hist' = Append(hist,
               Call("calculate_final_torque", <<a[1], a[2], a[3], a[4], a[5], TRUE>>,
                    calculate_final_torque(a[1], a[2], a[3], a[4], a[5], TRUE)))
    /\ UNCHANGED not_core

\* self_loosening = calculate_self_loosening(Tt, Tr) is followed by
\* primary_locking = calculate_primary_locking(Tt, Tr) on the same torques
Then_calculate_primary_locking ==
    /\ Len(hist) = 1
    /\ Last.op = "calculate_self_loosening"
    /\ Last.out = "ok"
    /\ hist' = Append(hist,
           Call("calculate_primary_locking", Last.args,
                calculate_primary_locking(Last.args[1], Last.args[2])))
    /\ UNCHANGED not_core

\* conv_uncertainty, _ = estimate_uncertainty(torque, ...) is passed on to
\* calculate_preload_range(conventional_preload, conv_uncertainty)
Then_calculate_preload_range ==
    /\ Len(hist) = 1
    /\ Last.op = "estimate_uncertainty"
    /\ Last.out = "ok"
    /\ \E P \in PreloadVals :
         hist' = Append(hist,
             Call("calculate_preload_range", <<P, Last.val[1]>>,
                  calculate_preload_range(P, Last.val[1])))
    /\ UNCHANGED not_core

\* after tensile_area = calculate_tensile_area(d, p): the conventional preload,
\* for the same diameter or for the diameter converted from mm to cm
Then_estimate_preload_from_torque ==
    /\ Len(hist) = 1
    /\ Last.op = "calculate_tensile_area"
    /\ Last.out = "ok"
    /\ \E T \in TorqueVals, K \in KFactorVals,
          d \in {Last.args[1], RDiv(Last.args[1], R(10, 1))} :
         hist' = Append(hist,
             Call("estimate_preload_from_torque", <<T, d, K>>,
                  estimate_preload_from_torque(T, d, K)))
    /\ UNCHANGED not_core

\* stress = calculate_stress_from_preload(preload, tensile_area)
Then_calculate_stress_from_preload ==
    /\ Len(hist) = 2
    /\ Last.op = "estimate_preload_from_torque"
    /\ Last.out = "ok"
    /\ hist' = Append(hist,
           Call("calculate_stress_from_preload", <<Last.val[1], hist[1].val[1]>>,
                calculate_stress_from_preload(Last.val[1], hist[1].val[1])))
    /\ UNCHANGED not_core

\* wh_preload = calculate_preload(Tt, Tr, p) is passed on to
\* wh_stress = calculate_stress_from_preload(wh_preload, tensile_area)
Then_calculate_stress_from_wh_preload ==
    /\ Len(hist) = 1
    /\ Last.op = "calculate_preload"
    /\ Last.out = "ok"
    /\ \E A \in StressVals :
         hist' = Append(hist,
             Call("calculate_stress_from_preload", <<Last.val[1], A>>,
                  calculate_stress_from_preload(Last.val[1], A)))
    /\ UNCHANGED not_core

\* safety_factor = calculate_safety_factor(stress, yield_strength)
Then_calculate_safety_factor ==
    /\ Len(hist) \in {2, 3}
    /\ Last.op = "calculate_stress_from_preload"
    /\ Last.out = "ok"
    /\ \E y \in YieldVals \cup {RMul(b, Last.val[1]) : b \in BandEdges} :
         hist' = Append(hist,
             Call("calculate_safety_factor", <<Last.val[1], y>>,
                  calculate_safety_factor(Last.val[1], y)))
    /\ UNCHANGED not_core

\* risk_level, _ = assess_risk(safety_factor)
Then_assess_risk ==
    /\ Len(hist) \in {3, 4}
    /\ Last.op = "calculate_safety_factor"
    /\ Last.out = "ok"
    /\ hist' = Append(hist,
           Call("assess_risk", <<Last.val[1]>>,
                assess_risk(Last.val[1], min_safety_factor_default)))
    /\ UNCHANGED not_core

\* a second preload next to the first one: on other inputs (the next implant of a
\* bridge), or on both torques of the first call scaled (the worn driver)
Then_calculate_preload_again ==
    /\ Len(hist) = 1
    /\ Last.op = "calculate_preload"
    /\ \/ \E a \in PreloadArgs :
            hist' = Append(hist, Call("calculate_preload", a,
                                      calculate_preload(a[1], a[2], a[3])))
       \/ \E f \in ScaleVals :
            LET Tt == RMul(f, Last.args[1])
                Tr == RMul(f, Last.args[2])
                pitch == Last.args[3]
            IN  hist' = Append(hist, Call("calculate_preload", <<Tt, Tr, pitch>>,
                                          calculate_preload(Tt, Tr, pitch)))
    /\ UNCHANGED not_core

\* a second assessment next to the first one (the conventional and the
\* Wadhwani-Hess safety factor of a comparison, or the next system of a loop)
Then_assess_risk_again ==
    /\ Len(hist) = 1
    /\ Last.op = "assess_risk"
    /\ \E sf \in SafetyVals :
        \/ hist' = Append(hist, Call("assess_risk", <<sf>>,
                                     assess_risk(sf, min_safety_factor_default)))
        \/ \E m \in MinSafetyVals \cup {min_safety_factor_default} :
             hist' = Append(hist, Call("assess_risk", <<sf, m>>, assess_risk(sf, m)))
    /\ UNCHANGED not_core

\* the caller is done with the results and moves on to its next computation
Finish ==
    /\ hist # <<>>
    /\ hist' = <<>>
    /\ UNCHANGED not_core

Next ==
    \/ Call_calculate_preload
    \/ Call_calculate_final_torque
    \/ Call_estimate_preload_from_torque
    \/ Call_calculate_stress_from_preload
    \/ Call_calculate_safety_factor
    \/ Call_assess_risk
    \/ Call_calculate_tensile_area
    \/ Call_calculate_self_loosening
    \/ Call_estimate_uncertainty
    \/ Call_calculate_preload_range
    \/ Call_calculate_torque_range
    \/ Then_calculate_primary_locking
    \/ Then_calculate_preload_range
    \/ Then_calculate_final_torque
    \/ Then_calculate_final_torque_ratio
    \/ Then_estimate_preload_from_torque
    \/ Then_calculate_stress_from_preload
    \/ Then_calculate_stress_from_wh_preload
    \/ Then_calculate_safety_factor
    \/ Then_assess_risk
    \/ Then_calculate_preload_again
    \/ Then_calculate_final_torque_both
    \/ Then_calculate_preload_at_final_torque
    \/ Then_assess_risk_again
    \/ Finish

Spec == Init /\ [][Next]_vars

(***************************************************************************)
(* The steps of the concurrent callers.                                    *)
(***************************************************************************)
\* caller t calls an operation: the arguments are bound in a new frame
Invoke(t) ==
    /\ frames[t].pc = "idle"
    /\ \E c \in ConcurrentCalls :
         frames' = [frames EXCEPT ![t] = [pc |-> "entered", op |-> c[1], args |-> c[2],
                                          locals |-> <<>>, res |-> NoOutcome]]
    /\ UNCHANGED not_callers

\* the checks at the head of the function
CheckArguments(t) ==
    /\ frames[t].pc = "entered"
    /\ frames' = [frames EXCEPT ![t] =
           IF ArgumentsRejected(frames[t].op, frames[t].args)
           THEN [@ EXCEPT !.pc = "done", !.res = Raise("ValueError")]
           ELSE [@ EXCEPT !.pc = "body"]]
    /\ UNCHANGED not_callers

\* the next assignment to a local variable of the frame
Assign(t) ==
    /\ frames[t].pc = "body"
    /\ Len(frames[t].locals) < Statements(frames[t].op)
    /\ LET v == Assigned(frames[t].op, frames[t].args, frames[t].locals)
       IN  frames' = [frames EXCEPT ![t] =
               IF AssignmentRaised(frames[t].op, v)
               THEN [@ EXCEPT !.pc = "done", !.res = Raise("ZeroDivisionError")]
               ELSE [@ EXCEPT !.locals = Append(@, v)]]
    /\ UNCHANGED not_callers

\* mutant: the parameters are kept in one slot per function, which the callers
\* share: the return statement reads those of the first caller inside the function
ReturnValue_shared(t) ==
    /\ frames[t].pc = "body"
    /\ Len(frames[t].locals) = Statements(frames[t].op)
    /\ LET u == CHOOSE u \in Callers : frames[u].op = frames[t].op
       IN  frames' = [frames EXCEPT ![t] =
               [@ EXCEPT !.pc = "done",
                         !.res = ReturnStatement(frames[t].op, frames[u].args,
                                                 frames[t].locals)]]
    /\ UNCHANGED not_callers

\* the return statement: the outcome is handed to the caller
ReturnValue(t) ==
    /\ frames[t].pc = "body"
    /\ Len(frames[t].locals) = Statements(frames[t].op)
    /\ frames' = [frames EXCEPT ![t] =
           [@ EXCEPT !.pc = "done",
                     !.res = ReturnStatement(frames[t].op, frames[t].args,
                                             frames[t].locals)]]
    /\ UNCHANGED not_callers

\* the caller has the outcome and drops the frame
Collect(t) ==
    /\ frames[t].pc = "done"
    /\ frames' = [frames EXCEPT ![t] = IdleFrame]
    /\ UNCHANGED not_callers

ConcurrentNext ==
    \/ \E t \in Callers : Invoke(t)
    \/ \E t \in Callers : CheckArguments(t)
    \/ \E t \in Callers : Assign(t)
    \/ \E t \in Callers : ReturnValue(t)
    \/ \E t \in Callers : Collect(t)

ConcurrentSpec == Init /\ [][ConcurrentNext]_vars

(***************************************************************************)
(* The steps of a script run of src/app/app.py.                            *)
(***************************************************************************)
\* the end of a run: the value of a widget the run did not show is dropped
EndRun(a) ==
    [a EXCEPT !.pc = "waiting",
              !.input = IF Element("input", "password") \in a.rendered THEN @ ELSE ""]

\* st.rerun(): the run ends here and the script starts again, with no widget pressed
Rerun(session) ==
    [session |-> session, input |-> app.input, event |-> NoEvent, pc |-> "init",
     rendered |-> {}]

\* the user types into the password field, which is on the screen
TypePassword ==
    /\ app.pc = "waiting"
    /\ Element("input", "password") \in app.rendered
    /\ \E w \in Passwords \ {app.input} :
         app' = [app EXCEPT !.input = w, !.event = NoEvent, !.pc = "init",
                            !.rendered = {}]
    /\ UNCHANGED not_app

\* the user presses a button that is on the screen
Press ==
    /\ app.pc = "waiting"
    /\ \E b \in app.rendered :
         /\ b.kind \in {"button", "nav"}
         /\ app' = [app EXCEPT !.event = b, !.pc = "init", !.rendered = {}]
    /\ UNCHANGED not_app

\* "Initialize session state": the defaults of page, calculation_results and
\* authenticated
InitializeSession ==
    /\ app.pc = "init"
    /\ app' = [app EXCEPT
           !.session = SetDefault(SetDefault(SetDefault(@, "page", "welcome"),
                                             "calculation_results", "empty"),
                                  "authenticated", FALSE),
           !.pc = "authentication"]
    /\ UNCHANGED not_app

\* mutant: the Login button accepts whatever was typed
Authentication_any_password ==
    /\ app.pc = "authentication"
    /\ app' =
           IF app.session["authenticated"] THEN [app EXCEPT !.pc = "navigation"]
           ELSE IF app.event = Element("button", "login")
                THEN Rerun(Set(app.session, "authenticated", TRUE))
           ELSE [app EXCEPT !.pc = "navigation",
                            !.rendered = @ \cup {Element("input", "password"),
                                                 Element("button", "login")}]
    /\ UNCHANGED not_app

\* "Authentication section": the password field and the Login button, shown while
\* not authenticated; Login with the right password sets the flag and reruns
Authentication ==
    /\ app.pc = "authentication"
    /\ app' =
           IF app.session["authenticated"] THEN [app EXCEPT !.pc = "navigation"]
           ELSE IF app.event = Element("button", "login") /\ app.input = ConfiguredPassword
                THEN Rerun(Set(app.session, "authenticated", TRUE))
           ELSE [app EXCEPT !.pc = "navigation",
                            !.rendered = @ \cup {Element("input", "password"),
                                                 Element("button", "login")}
                                           \cup (IF app.event = Element("button", "login")
                                                 THEN {Element("text", "incorrect_password")}
                                                 ELSE {})]
    /\ UNCHANGED not_app

\* "Only show navigation if authenticated": the navigation buttons, of which the
\* pressed one selects the page; the report button, enabled when there are results;
\* the Logout button, which clears the flag and reruns
Navigation ==
    /\ app.pc = "navigation"
    /\ IF ~app.session["authenticated"] THEN app' = [app EXCEPT !.pc = "main"]
       ELSE LET selected ==
                    IF app.event.kind = "nav"
                    THEN Set(app.session, "page", app.event.id)
                    ELSE app.session
                report ==
                    IF selected["calculation_results"] = "empty"
                    THEN Element("disabled", "report") ELSE Element("button", "report")
                shown == app.rendered \cup {Element("nav", id) : id \in NavIds} \cup {report}
            IN  IF app.event = Element("button", "report")
                THEN \E outcome \in ReportOutcomes :
                       app' = IF outcome = "exception"
                              THEN EndRun([app EXCEPT !.session = selected,
                                                      !.rendered = shown])
                              ELSE [app EXCEPT !.session = selected, !.pc = "main",
                                               !.rendered = shown \cup
                                                   {Element("button", "download"),
                                                    Element("button", "logout")}]
                ELSE IF app.event = Element("button", "logout")
                THEN app' = Rerun(Set(selected, "authenticated", FALSE))
                ELSE app' = [app EXCEPT !.session = selected, !.pc = "main",
                                        !.rendered = shown \cup {Element("button", "logout")}]
    /\ UNCHANGED not_app

\* "Main content": the selected page when authenticated (a calculator page stores
\* its results when its button was pressed), the request for the password otherwise
MainContent ==
    /\ app.pc = "main"
    /\ app' =
           IF ~app.session["authenticated"]
           THEN [app EXCEPT !.pc = "footer",
                            !.rendered = @ \cup {Element("text", "enter_password")}]
           ELSE LET page == app.session["page"]
                    calculate == Element("button", "calculate")
                IN  [app EXCEPT
                        !.pc = "footer",
                        !.rendered = @ \cup {Element("page", page)}
                                       \cup (IF page \in Calculators THEN {calculate} ELSE {}),
                        !.session = IF page \in Calculators /\ app.event = calculate
                                    THEN Set(@, "calculation_results", "stored")
                                    ELSE @]
    /\ UNCHANGED not_app

\* "Footer only shows when authenticated"; the run is over
Footer ==
    /\ app.pc = "footer"
    /\ app' = EndRun([app EXCEPT
           !.rendered = IF app.session["authenticated"]
                        THEN @ \cup {Element("text", "footer")} ELSE @])
    /\ UNCHANGED not_app

AppNext ==
    \/ TypePassword
    \/ Press
    \/ InitializeSession
    \/ Authentication
    \/ Navigation
    \/ MainContent
    \/ Footer

AppSpec == Init /\ [][AppNext]_vars

(***************************************************************************)
(* Properties.                                                             *)
(***************************************************************************)
Idx == 1..Len(hist)

IsCall(i, op) == hist[i].op = op

\* the flag a calculate_final_torque call ran with
FlagOf(c) == IF Len(c.args) = 6 THEN c.args[6] ELSE use_ratio_method_default

\* C1: for every Tt, Tr and every thread pitch p > 0, calculate_preload(Tt, Tr, p)
\* returns exactly (Tt - Tr) * pi / p, i.e. the value P with P * p = (Tt - Tr) * pi
C1_PreloadIsEquation3 ==
    \A i \in Idx :
        IsCall(i, "calculate_preload") /\ RGt(hist[i].args[3], Zero) =>
            /\ hist[i].out = "ok"
            /\ RMul(hist[i].val[1], hist[i].args[3])
                 = RMul(RSub(hist[i].args[1], hist[i].args[2]), Pi)

C1_Witness ==
    \E i \in Idx :
        /\ IsCall(i, "calculate_preload")
        /\ hist[i].out = "ok"
        /\ RGt(hist[i].args[1], hist[i].args[2])
        /\ hist[i].args[3] # R(1, 1)
        /\ RGt(hist[i].val[1], Zero)

\* the computation initial_preload = calculate_preload(Tt, Tr, p) with Tt > Tr,
\* followed by calculate_final_torque on that initial_preload
FromPreload ==
    /\ Len(hist) >= 2
    /\ IsCall(1, "calculate_preload")
    /\ IsCall(2, "calculate_final_torque")
    /\ RGt(hist[1].args[1], hist[1].args[2])

\* C2: equivalence law: with initial_preload = calculate_preload(Tt, Tr, p), Tt > Tr,
\* p > 0 and any desired_preload, calculate_final_torque with use_ratio_method false
\* and true both return, the two torques differ by less than 0.01, and where
\* Tt # 0, final_torque / Tt = desired_preload / initial_preload
C2_MethodsAgree ==
    FromPreload =>
        /\ hist[2].out = "ok"
        /\ hist[1].args[1] # Zero =>
               RDiv(hist[2].val[1], hist[1].args[1]) = RDiv(hist[2].args[4], hist[2].args[3])
        /\ Len(hist) = 3 /\ IsCall(3, "calculate_final_torque") =>
               /\ hist[3].out = "ok"
               /\ ~FlagOf(hist[2]) /\ FlagOf(hist[3])
               /\ RLt(RAbs(RSub(hist[2].val[1], hist[3].val[1])), R(1, 100))

C2_Witness ==
    /\ FromPreload
    /\ Len(hist) = 3
    /\ IsCall(3, "calculate_final_torque")
    /\ hist[3].out = "ok"
    /\ hist[3].val[1] # Zero
    /\ hist[3].val[1] # hist[1].args[1]

\* C3 as claimed: calculate_final_torque raises ValueError exactly when
\* thread_pitch <= 0 or initial_torque <= removal_torque, and for every other
\* combination of arguments it returns a torque and raises nothing
C3_FailsExactlyOnGuards ==
    \A i \in Idx :
        IsCall(i, "calculate_final_torque") =>
            LET a == hist[i].args
                guarded == RLe(a[5], Zero) \/ RLe(a[1], a[2])
            IN  /\ guarded => hist[i].out = "ValueError"
                /\ ~guarded => hist[i].out = "ok"

\* C4: whenever calculate_final_torque returns: without use_ratio_method the value Ti
\* satisfies Ti * pi * (Tt - Tr) = p * Tt * desired_preload, whatever initial_preload
\* is; with use_ratio_method it satisfies Ti * initial_preload = Tt * desired_preload,
\* whatever removal_torque and thread_pitch are
C4_FinalTorqueFormulas ==
    \A i \in Idx :
        IsCall(i, "calculate_final_torque") /\ hist[i].out = "ok" =>
            LET a == hist[i].args
                Ti == hist[i].val[1]
            IN  IF FlagOf(hist[i])
                THEN RMul(Ti, a[3]) = RMul(a[1], a[4])
                ELSE RMul(Ti, RMul(Pi, RSub(a[1], a[2]))) = RMul(RMul(a[5], a[1]), a[4])

\* an exact-method call that returns, on an initial_preload that is not the
\* preload of its torques and pitch, and for which the two methods differ
C4_Witness ==
    \E i \in Idx :
        /\ IsCall(i, "calculate_final_torque")
        /\ hist[i].out = "ok"
        /\ ~FlagOf(hist[i])
        /\ hist[i].val[1] # Zero
        /\ RMul(hist[i].val[1], hist[i].args[3]) # RMul(hist[i].args[1], hist[i].args[4])

\* C5: calculate_preload raises ValueError if and only if thread_pitch <= 0 and
\* raises nothing else; Tt < Tr returns a negative preload, Tt = Tr returns 0
C5_PreloadRaisesIffPitchNotPositive ==
    \A i \in Idx :
        IsCall(i, "calculate_preload") =>
            LET a == hist[i].args
            IN  /\ hist[i].out = (IF RLe(a[3], Zero) THEN "ValueError" ELSE "ok")
                /\ hist[i].out = "ok" /\ RLt(a[1], a[2]) => RLt(hist[i].val[1], Zero)
                /\ hist[i].out = "ok" /\ a[1] = a[2] => hist[i].val[1] = Zero

C5_Witness ==
    \E i \in Idx :
        /\ IsCall(i, "calculate_preload")
        /\ hist[i].out = "ok"
        /\ RLt(hist[i].args[1], hist[i].args[2])
        /\ RLt(hist[i].val[1], Zero)

\* the min_safety_factor an assess_risk call ran with
MinOf(c) == IF Len(c.args) = 2 THEN c.args[2] ELSE min_safety_factor_default

\* C6: with the default min_safety_factor = 1.5, every safety_factor >= 0 is
\* classified Low when > 3.0, Medium when 1.5 <= safety_factor <= 3.0 (1.5 and 3.0
\* included), High when < 1.5
C6_DefaultBands ==
    \A i \in Idx :
        IsCall(i, "assess_risk") /\ Len(hist[i].args) = 1 /\ RGe(hist[i].args[1], Zero) =>
            LET sf == hist[i].args[1]
            IN  /\ hist[i].out = "ok"
                /\ hist[i].val[1] =
                     (IF RGt(sf, R(3, 1)) THEN "Low"
                      ELSE IF RGe(sf, R(3, 2)) THEN "Medium"
                      ELSE "High")

\* the boundary 1.5 itself, classified Medium by a call with the default
C6_Witness ==
    \E i \in Idx :
        /\ IsCall(i, "assess_risk")
        /\ hist[i].args = <<R(3, 2)>>
        /\ hist[i].out = "ok"
        /\ hist[i].val[1] = "Medium"

\* C7 as claimed: for every safety_factor >= 0 and every min_safety_factor,
\* High whenever safety_factor < min_safety_factor, Medium whenever
\* min_safety_factor <= safety_factor <= 3.0, Low whenever safety_factor > 3.0
C7_BandsForAnyMinimum ==
    \A i \in Idx :
        IsCall(i, "assess_risk") /\ RGe(hist[i].args[1], Zero) =>
            LET sf == hist[i].args[1]
                m == MinOf(hist[i])
            IN  /\ hist[i].out = "ok"
                /\ RLt(sf, m) => hist[i].val[1] = "High"
                /\ RGe(sf, m) /\ RLe(sf, R(3, 1)) => hist[i].val[1] = "Medium"
                /\ RGt(sf, R(3, 1)) => hist[i].val[1] = "Low"

\* C7 as amended: for every safety_factor >= 0 and every min_safety_factor,
\* Low whenever safety_factor > 3.0 (also when it is below min_safety_factor);
\* for safety_factor <= 3.0, High whenever safety_factor < min_safety_factor
\* and Medium whenever min_safety_factor <= safety_factor
C7_BandsLowFirst ==
    \A i \in Idx :
        IsCall(i, "assess_risk") /\ RGe(hist[i].args[1], Zero) =>
            LET sf == hist[i].args[1]
                m == MinOf(hist[i])
            IN  /\ hist[i].out = "ok"
                /\ hist[i].val[1] =
                     (IF RGt(sf, R(3, 1)) THEN "Low"
                      ELSE IF RLt(sf, m) THEN "High"
                      ELSE "Medium")

\* a safety factor above 3.0 and below the caller's minimum, classified Low
C7_Witness ==
    \E i \in Idx :
        /\ IsCall(i, "assess_risk")
        /\ Len(hist[i].args) = 2
        /\ RGt(hist[i].args[1], R(3, 1))
        /\ RLt(hist[i].args[1], hist[i].args[2])
        /\ hist[i].out = "ok"
        /\ hist[i].val[1] = "Low"

\* C8: assess_risk raises ValueError if and only if safety_factor < 0 and raises
\* nothing else; safety_factor = 0 with the default minimum is classified High
C8_RiskRaisesIffNegative ==
    \A i \in Idx :
        IsCall(i, "assess_risk") =>
            /\ hist[i].out = (IF RLt(hist[i].args[1], Zero) THEN "ValueError" ELSE "ok")
            /\ hist[i].args = <<Zero>> => hist[i].out = "ok" /\ hist[i].val[1] = "High"

C8_Witness ==
    \E i \in Idx :
        /\ IsCall(i, "assess_risk")
        /\ hist[i].args = <<Zero>>
        /\ hist[i].out = "ok"
        /\ hist[i].val[1] = "High"

\* C9: calculate_safety_factor raises ValueError if and only if stress <= 0 or
\* yield_strength <= 0 and raises nothing else (no ZeroDivisionError for zero
\* stress); otherwise it returns yield_strength / stress, a number > 0
C9_SafetyFactorGuards ==
    \A i \in Idx :
        IsCall(i, "calculate_safety_factor") =>
            LET stress == hist[i].args[1]
                yield_strength == hist[i].args[2]
            IN  IF RLe(stress, Zero) \/ RLe(yield_strength, Zero)
                THEN hist[i].out = "ValueError"
                ELSE /\ hist[i].out = "ok"
                     /\ RMul(hist[i].val[1], stress) = yield_strength
                     /\ RGt(hist[i].val[1], Zero)

\* zero stress with a positive yield strength is rejected with ValueError
C9_Witness ==
    \E i \in Idx :
        /\ IsCall(i, "calculate_safety_factor")
        /\ hist[i].args[1] = Zero
        /\ RGt(hist[i].args[2], Zero)
        /\ hist[i].out = "ValueError"

\* the chain of C10 up to the preload: tensile_area = calculate_tensile_area(d, p)
\* has returned (so d > 0 and p > 0), then estimate_preload_from_torque(T, d', K)
\* was called with T > 0 and K > 0, d' being d or d / 10
StressChain ==
    /\ Len(hist) >= 2
    /\ IsCall(1, "calculate_tensile_area")
    /\ IsCall(2, "estimate_preload_from_torque")
    /\ RGt(hist[2].args[1], Zero)
    /\ RGt(hist[2].args[3], Zero)

\* C10 as claimed: for d, p, T, K, yield_strength all > 0 no step of the chain
\* tensile area, preload, stress, safety factor raises, and the safety factor is > 0
C10_ChainNeverRaises ==
    StressChain =>
        /\ hist[2].out = "ok"
        /\ Len(hist) >= 3 => hist[3].out = "ok"
        /\ Len(hist) >= 4 /\ RGt(hist[4].args[2], Zero) =>
               hist[4].out = "ok" /\ RGt(hist[4].val[1], Zero)

\* C10 as amended: for d, p, T, K, yield_strength all > 0 the tensile area and the
\* preload steps never raise; calculate_stress_from_preload raises ValueError
\* exactly when d = 0.9382 * p (the tensile area is then 0) and otherwise returns;
\* the safety factor step then never raises and returns a number > 0
C10_ChainRaisesOnlyOnZeroArea ==
    StressChain =>
        /\ hist[2].out = "ok"
        /\ Len(hist) >= 3 =>
               hist[3].out =
                   (IF hist[1].args[1] = RMul(EffectiveDiameterFactor, hist[1].args[2])
                    THEN "ValueError" ELSE "ok")
        /\ Len(hist) >= 4 /\ RGt(hist[4].args[2], Zero) =>
               hist[4].out = "ok" /\ RGt(hist[4].val[1], Zero)

\* the whole chain has run, on an effective diameter below zero
C10_Witness ==
    /\ StressChain
    /\ Len(hist) >= 4
    /\ RLt(hist[1].args[1], RMul(EffectiveDiameterFactor, hist[1].args[2]))
    /\ RGt(hist[4].args[2], Zero)
    /\ hist[4].out = "ok"
    /\ RGt(hist[4].val[1], Zero)

\* the computation wh_preload = calculate_preload(Tt, Tr, p) with Tt <= Tr, followed
\* by calculate_stress_from_preload on that preload and a tensile area > 0
NonPositivePreloadChain ==
    /\ Len(hist) >= 2
    /\ IsCall(1, "calculate_preload")
    /\ RLe(hist[1].args[1], hist[1].args[2])
    /\ IsCall(2, "calculate_stress_from_preload")
    /\ RGt(hist[2].args[2], Zero)

\* C11: a preload <= 0 is rejected only downstream: calculate_stress_from_preload
\* with preload <= 0 and tensile_area > 0 returns a stress <= 0, and in the
\* sequence calculate_preload (Tt <= Tr) -> calculate_stress_from_preload ->
\* calculate_safety_factor (yield_strength > 0) the first two steps return and
\* the third raises ValueError
C11_RejectedOnlyDownstream ==
    /\ \A i \in Idx :
          /\ IsCall(i, "calculate_stress_from_preload")
          /\ RLe(hist[i].args[1], Zero)
          /\ RGt(hist[i].args[2], Zero)
          => hist[i].out = "ok" /\ RLe(hist[i].val[1], Zero)
    /\ NonPositivePreloadChain =>
          /\ hist[1].out = "ok" /\ RLe(hist[1].val[1], Zero)
          /\ hist[2].out = "ok" /\ RLe(hist[2].val[1], Zero)
          /\ Len(hist) >= 3 /\ RGt(hist[3].args[2], Zero) =>
                 /\ hist[3].args[1] = hist[2].val[1]
                 /\ hist[3].out = "ValueError"

\* the sequence has run to its third step, on a negative preload
C11_Witness ==
    /\ NonPositivePreloadChain
    /\ Len(hist) = 3
    /\ IsCall(3, "calculate_safety_factor")
    /\ RLt(hist[1].val[1], Zero)
    /\ RGt(hist[3].args[2], Zero)
    /\ hist[3].out = "ValueError"

\* the k_factor an estimate_preload_from_torque call ran with
KFactorOf(c) == IF Len(c.args) = 3 THEN c.args[3] ELSE R(2, 10)

\* C12: estimate_preload_from_torque raises ValueError if and only if
\* screw_diameter <= 0 or k_factor <= 0 and raises nothing else; otherwise it returns
\* F with F * (k_factor * screw_diameter) = torque, for every torque, k_factor
\* being 0.2 when the caller leaves it out
C12_ConventionalPreload ==
    \A i \in Idx :
        IsCall(i, "estimate_preload_from_torque") =>
            LET T == hist[i].args[1]
                d == hist[i].args[2]
                K == KFactorOf(hist[i])
            IN  IF RLe(d, Zero) \/ RLe(K, Zero)
                THEN hist[i].out = "ValueError"
                ELSE /\ hist[i].out = "ok"
                     /\ RMul(hist[i].val[1], RMul(K, d)) = T

\* a call without k_factor, on a negative torque and a diameter other than 1,
\* returns 5 * torque / diameter
C12_Witness ==
    \E i \in Idx :
        /\ IsCall(i, "estimate_preload_from_torque")
        /\ Len(hist[i].args) = 2
        /\ RLt(hist[i].args[1], Zero)
        /\ hist[i].args[2] # R(1, 1)
        /\ hist[i].out = "ok"
        /\ hist[i].val[1] = RDiv(RMul(R(5, 1), hist[i].args[1]), hist[i].args[2])

\* C13: calculate_stress_from_preload raises ValueError if and only if
\* tensile_area <= 0 and raises nothing else; otherwise it returns s with
\* s * tensile_area = preload, for every preload, so s = 1 when preload = tensile_area
C13_StressFromPreload ==
    \A i \in Idx :
        IsCall(i, "calculate_stress_from_preload") =>
            LET F == hist[i].args[1]
                A == hist[i].args[2]
            IN  IF RLe(A, Zero)
                THEN hist[i].out = "ValueError"
                ELSE /\ hist[i].out = "ok"
                     /\ RMul(hist[i].val[1], A) = F
                     /\ F = A => hist[i].val[1] = R(1, 1)

\* preload = tensile_area, other than 1, gives the stress 1
C13_Witness ==
    \E i \in Idx :
        /\ IsCall(i, "calculate_stress_from_preload")
        /\ hist[i].args[1] = hist[i].args[2]
        /\ hist[i].args[1] # R(1, 1)
        /\ hist[i].out = "ok"
        /\ hist[i].val[1] = R(1, 1)

\* d - 0.9382 * p of a calculate_tensile_area call
EffectiveDiameterOf(c) == RSub(c.args[1], RMul(R(9382, 10000), c.args[2]))

\* C14: calculate_tensile_area raises ValueError if and only if d <= 0 or p <= 0
\* and raises nothing else; otherwise it returns A with 4 * A = pi * (d - 0.9382 p)^2,
\* which is >= 0, also when d - 0.9382 p is zero or negative
C14_TensileArea ==
    \A i \in Idx :
        IsCall(i, "calculate_tensile_area") =>
            LET d == hist[i].args[1]
                p == hist[i].args[2]
                e == EffectiveDiameterOf(hist[i])
            IN  IF RLe(d, Zero) \/ RLe(p, Zero)
                THEN hist[i].out = "ValueError"
                ELSE /\ hist[i].out = "ok"
                     /\ RMul(R(4, 1), hist[i].val[1]) = RMul(Pi, RMul(e, e))
                     /\ RGe(hist[i].val[1], Zero)

\* a valid call whose effective diameter is negative returns a positive area
C14_Witness ==
    \E i \in Idx :
        /\ IsCall(i, "calculate_tensile_area")
        /\ RLt(EffectiveDiameterOf(hist[i]), Zero)
        /\ hist[i].out = "ok"
        /\ RGt(hist[i].val[1], Zero)

\* C15: for every Tt and Tr, in any order and of any sign, both calls return,
\* calculate_self_loosening(Tt, Tr) is (Tt - Tr)/2, calculate_primary_locking(Tt, Tr)
\* is (Tt + Tr)/2, and their sum is Tt
C15_ComponentsSumToTightening ==
    /\ \A i \in Idx :
          IsCall(i, "calculate_self_loosening") =>
              /\ hist[i].out = "ok"
              /\ RMul(R(2, 1), hist[i].val[1]) = RSub(hist[i].args[1], hist[i].args[2])
    /\ \A i \in Idx :
          IsCall(i, "calculate_primary_locking") =>
              /\ hist[i].out = "ok"
              /\ RMul(R(2, 1), hist[i].val[1]) = RAdd(hist[i].args[1], hist[i].args[2])
    /\ Len(hist) = 2 /\ IsCall(1, "calculate_self_loosening")
                     /\ IsCall(2, "calculate_primary_locking") =>
          /\ hist[2].args = hist[1].args
          /\ RAdd(hist[1].val[1], hist[2].val[1]) = hist[1].args[1]

\* both components computed for Tt < Tr, Tt # 0, with a negative removal torque
C15_Witness ==
    /\ Len(hist) = 2
    /\ IsCall(1, "calculate_self_loosening")
    /\ IsCall(2, "calculate_primary_locking")
    /\ RLt(hist[1].args[1], hist[1].args[2])
    /\ hist[1].args[1] # Zero
    /\ RLt(hist[1].val[1], Zero)
    /\ RAdd(hist[1].val[1], hist[2].val[1]) = hist[1].args[1]

\* the is_lubricated flag a call of estimate_uncertainty or calculate_torque_range ran with
LubricatedOf(c) == IF Len(c.args) = 2 THEN c.args[2] ELSE FALSE

\* C16: estimate_uncertainty never fails and returns (25, 0.25 * torque_value) when
\* is_lubricated and (35, 0.35 * torque_value) otherwise; the percentage is above 9;
\* estimate_uncertainty(35, False) = (35, 12.25), estimate_uncertainty(35, True) = (25, 8.75)
C16_UncertaintyTable ==
    \A i \in Idx :
        IsCall(i, "estimate_uncertainty") =>
            LET T == hist[i].args[1]
            IN  /\ hist[i].out = "ok"
                /\ hist[i].val =
                     (IF LubricatedOf(hist[i]) THEN <<R(25, 1), RMul(R(25, 100), T)>>
                                               ELSE <<R(35, 1), RMul(R(35, 100), T)>>)
                /\ RGt(hist[i].val[1], R(9, 1))
                /\ hist[i].args = <<R(35, 1), FALSE>> => hist[i].val = <<R(35, 1), R(1225, 100)>>
                /\ hist[i].args = <<R(35, 1), TRUE>> => hist[i].val = <<R(25, 1), R(875, 100)>>

C16_Witness ==
    \E i \in Idx :
        /\ IsCall(i, "estimate_uncertainty")
        /\ hist[i].args = <<R(35, 1), TRUE>>
        /\ hist[i].out = "ok"
        /\ hist[i].val = <<R(25, 1), R(875, 100)>>

\* C17: calculate_preload_range(preload, u) never fails, for u < 0 and u > 100 too,
\* and returns (preload * (1 - u/100), preload * (1 + u/100)); the mean of the two
\* values is preload; calculate_preload_range(400, 35) = (260, 540)
C17_PreloadRange ==
    \A i \in Idx :
        IsCall(i, "calculate_preload_range") =>
            LET P == hist[i].args[1]
                u == hist[i].args[2]
            IN  /\ hist[i].out = "ok"
                /\ RMul(R(100, 1), hist[i].val[1]) = RMul(P, RSub(R(100, 1), u))
                /\ RMul(R(100, 1), hist[i].val[2]) = RMul(P, RAdd(R(100, 1), u))
                /\ RDiv(RAdd(hist[i].val[1], hist[i].val[2]), R(2, 1)) = P
                /\ hist[i].args = <<R(400, 1), R(35, 1)>> =>
                       hist[i].val = <<R(260, 1), R(540, 1)>>

C17_Witness ==
    \E i \in Idx :
        /\ IsCall(i, "calculate_preload_range")
        /\ hist[i].args = <<R(400, 1), R(35, 1)>>
        /\ hist[i].out = "ok"
        /\ hist[i].val = <<R(260, 1), R(540, 1)>>

\* C18: calculate_torque_range(T, flag) never fails and returns what
\* calculate_preload_range(T, pct) returns for (pct, value) = estimate_uncertainty(T, flag),
\* which is (T - value, T + value); without the flag it is the 35 % range
C18_TorqueRangeUsesSameTable ==
    \A i \in Idx :
        IsCall(i, "calculate_torque_range") =>
            LET T == hist[i].args[1]
                eu == estimate_uncertainty(T, LubricatedOf(hist[i]))
                pr == calculate_preload_range(T, eu.val[1])
            IN  /\ hist[i].out = "ok"
                /\ hist[i].val = pr.val
                /\ hist[i].val = <<RSub(T, eu.val[2]), RAdd(T, eu.val[2])>>
                /\ Len(hist[i].args) = 1 =>
                       hist[i].val = <<RMul(R(65, 100), T), RMul(R(135, 100), T)>>

\* a call without the flag, on a torque other than 0, returns the 35 % range
C18_Witness ==
    \E i \in Idx :
        /\ IsCall(i, "calculate_torque_range")
        /\ hist[i].args = <<R(35, 1)>>
        /\ hist[i].out = "ok"
        /\ hist[i].val = <<R(2275, 100), R(4725, 100)>>

\* x is within tol of y; x rounds to y at one decimal place
Within(x, y, tol) == RLe(RAbs(RSub(x, y)), tol)
RoundsTo1(x, y) == RLt(RAbs(RSub(x, y)), R(5, 100))

\* C19 as claimed: calculate_preload(35, 21.4, 0.04) returns 282.7 to one decimal place
C19_Preload35Is2827 ==
    \A i \in Idx :
        IsCall(i, "calculate_preload")
            /\ hist[i].args = <<R(35, 1), R(214, 10), R(4, 100)>> =>
                hist[i].out = "ok" /\ RoundsTo1(hist[i].val[1], R(2827, 10))

\* C19 as amended: calculate_preload(25, 21.4, 0.04), on the initial torque of the
\* example, returns 282.7 to one decimal place; calculate_preload(35, 21.4, 0.04)
\* returns 1068.1 to one decimal place
C19_Preload25Is2827 ==
    \A i \in Idx :
        IsCall(i, "calculate_preload") =>
            /\ hist[i].args = <<R(25, 1), R(214, 10), R(4, 100)>> =>
                   hist[i].out = "ok" /\ RoundsTo1(hist[i].val[1], R(2827, 10))
            /\ hist[i].args = <<R(35, 1), R(214, 10), R(4, 100)>> =>
                   hist[i].out = "ok" /\ RoundsTo1(hist[i].val[1], R(10681, 10))

C19_Witness ==
    \E i \in Idx :
        /\ IsCall(i, "calculate_preload")
        /\ hist[i].args = <<R(25, 1), R(214, 10), R(4, 100)>>
        /\ hist[i].out = "ok"
        /\ RoundsTo1(hist[i].val[1], R(2827, 10))

\* a calculate_final_torque call of the example: torques 25 and 21.4, desired preload
\* 400, pitch 0.04, exact method, on the initial preload 282.7 or on the result of
\* the preceding calculate_preload(25, 21.4, 0.04)
PaperFinalTorqueCall(i) ==
    /\ IsCall(i, "calculate_final_torque")
    /\ ~FlagOf(hist[i])
    /\ hist[i].args[1] = R(25, 1)
    /\ hist[i].args[2] = R(214, 10)
    /\ hist[i].args[4] = R(400, 1)
    /\ hist[i].args[5] = R(4, 100)
    /\ \/ hist[i].args[3] = R(2827, 10)
       \/ /\ i = 2
          /\ IsCall(1, "calculate_preload")
          /\ hist[1].args = <<R(25, 1), R(214, 10), R(4, 100)>>
          /\ hist[i].args[3] = hist[1].val[1]

\* C20: calculate_final_torque(25, 21.4, 282.7, 400, 0.04) with the exact method
\* returns a torque within 0.1 of 35.4, and so does the call on
\* initial_preload = calculate_preload(25, 21.4, 0.04)
C20_PaperFinalTorque ==
    \A i \in Idx :
        PaperFinalTorqueCall(i) =>
            hist[i].out = "ok" /\ Within(hist[i].val[1], R(354, 10), R(1, 10))

\* the call on the computed initial preload, which is not 282.7 itself
C20_Witness ==
    /\ Len(hist) = 2
    /\ PaperFinalTorqueCall(2)
    /\ hist[2].args[3] # R(2827, 10)
    /\ hist[2].out = "ok"
    /\ Within(hist[2].val[1], R(354, 10), R(1, 10))

\* C21: the recommendation of assess_risk is a function of the risk level alone
\* (two assessments with the same level carry the same text, whatever their safety
\* factors and minima), and the text of every High assessment contains
\* "not recommended" when compared case-insensitively
C21_RecommendationByBand ==
    /\ \A i, j \in Idx :
           /\ IsCall(i, "assess_risk") /\ hist[i].out = "ok"
           /\ IsCall(j, "assess_risk") /\ hist[j].out = "ok"
           /\ hist[i].val[1] = hist[j].val[1]
           => hist[i].val[2] = hist[j].val[2]
    /\ \A i \in Idx :
           IsCall(i, "assess_risk") /\ hist[i].out = "ok" /\ hist[i].val[1] = "High" =>
               Contains(lower(Characters(hist[i].val[2])), NotRecommended)

\* two High assessments on different safety factors and different minima
C21_Witness ==
    /\ Len(hist) = 2
    /\ IsCall(1, "assess_risk") /\ IsCall(2, "assess_risk")
    /\ hist[1].out = "ok" /\ hist[2].out = "ok"
    /\ hist[1].val[1] = "High" /\ hist[2].val[1] = "High"
    /\ hist[1].args[1] # hist[2].args[1]
    /\ MinOf(hist[1]) # MinOf(hist[2])
    /\ Contains(lower(Characters(hist[2].val[2])), NotRecommended)

\* C22: under any interleaving of the callers' steps, every finished call of a
\* core operation has the outcome the same call has when it runs alone, and two
\* finished calls of one operation on equal arguments have equal outcomes
C22_CallsAreIndependent ==
    /\ \A t \in Callers :
           frames[t].pc = "done" => frames[t].res = RunAlone(frames[t].op, frames[t].args)
    /\ \A t, u \in Callers :
           /\ frames[t].pc = "done" /\ frames[u].pc = "done"
           /\ frames[t].op = frames[u].op /\ frames[t].args = frames[u].args
           => frames[t].res = frames[u].res

\* one caller has finished calculate_final_torque while another caller, inside the
\* same function on other arguments, has assigned ratio_method and not yet returned
C22_Witness ==
    \E t, u \in Callers :
        /\ t # u
        /\ frames[t].pc = "done" /\ frames[t].op = "calculate_final_torque"
        /\ frames[t].res.out = "ok"
        /\ frames[u].pc = "body" /\ frames[u].op = "calculate_final_torque"
        /\ Len(frames[u].locals) = 1
        /\ frames[u].args # frames[t].args

\* two calls of calculate_preload, both with Tt > Tr >= 0 and p > 0
TwoPreloads(i, j) ==
    /\ IsCall(i, "calculate_preload") /\ IsCall(j, "calculate_preload")
    /\ RGt(hist[i].args[1], hist[i].args[2]) /\ RGe(hist[i].args[2], Zero)
    /\ RGt(hist[j].args[1], hist[j].args[2]) /\ RGe(hist[j].args[2], Zero)
    /\ RGt(hist[i].args[3], Zero) /\ RGt(hist[j].args[3], Zero)

TorqueDifference(c) == RSub(c.args[1], c.args[2])

\* C23: for Tt > Tr >= 0 and p > 0, at one pitch the preload is the same for equal
\* Tt - Tr and strictly larger for a larger Tt - Tr; at the same torques it is
\* strictly smaller for a larger pitch; and with both torques scaled by a factor
\* 0 < a < 1 at one pitch the preload is a times the other preload
C23_PreloadMonotone ==
    \A i, j \in Idx :
        TwoPreloads(i, j) =>
            /\ hist[i].out = "ok" /\ hist[j].out = "ok"
            /\ hist[i].args[3] = hist[j].args[3] =>
                   /\ TorqueDifference(hist[i]) = TorqueDifference(hist[j]) =>
                          hist[i].val[1] = hist[j].val[1]
                   /\ RLt(TorqueDifference(hist[i]), TorqueDifference(hist[j])) =>
                          RLt(hist[i].val[1], hist[j].val[1])
                   /\ \A a \in ScaleVals :
                          /\ RLt(a, R(1, 1))
                          /\ hist[j].args[1] = RMul(a, hist[i].args[1])
                          /\ hist[j].args[2] = RMul(a, hist[i].args[2])
                          => hist[j].val[1] = RMul(a, hist[i].val[1])
            /\ /\ hist[i].args[1] = hist[j].args[1]
               /\ hist[i].args[2] = hist[j].args[2]
               /\ RLt(hist[i].args[3], hist[j].args[3])
               => RGt(hist[i].val[1], hist[j].val[1])

\* the preload on the set torque, then the preload on 85 % of both torques
C23_Witness ==
    /\ Len(hist) = 2
    /\ TwoPreloads(1, 2)
    /\ hist[2].args[1] = RMul(R(85, 100), hist[1].args[1])
    /\ hist[2].args[2] = RMul(R(85, 100), hist[1].args[2])
    /\ RGt(hist[1].args[2], Zero)
    /\ hist[2].val[1] = RMul(R(85, 100), hist[1].val[1])
    /\ RLt(hist[2].val[1], hist[1].val[1])

\* calls i and j of calculate_final_torque have the same five numbers, i with the
\* exact method and j with the ratio method, Tt > Tr, p > 0 and initial_preload # 0
BothMethods(i, j) ==
    /\ IsCall(i, "calculate_final_torque") /\ IsCall(j, "calculate_final_torque")
    /\ SubSeq(hist[i].args, 1, 5) = SubSeq(hist[j].args, 1, 5)
    /\ ~FlagOf(hist[i]) /\ FlagOf(hist[j])
    /\ RGt(hist[i].args[1], hist[i].args[2])
    /\ RGt(hist[i].args[5], Zero)
    /\ hist[i].args[3] # Zero

\* initial_preload of the call c is calculate_preload(Tt, Tr, p) on c's own triple
ConsistentPreload(c) ==
    calculate_preload(c.args[1], c.args[2], c.args[5]) = Return(<<c.args[3]>>)

\* C24 as claimed: for Tt > Tr, p > 0, any desired_preload and initial_preload # 0,
\* both methods return, and they return the same torque only if initial_preload is
\* calculate_preload(Tt, Tr, p)
C24_AgreeOnlyOnConsistentPreload ==
    \A i, j \in Idx :
        BothMethods(i, j) =>
            /\ hist[i].out = "ok" /\ hist[j].out = "ok"
            /\ hist[i].val = hist[j].val => ConsistentPreload(hist[i])

\* C24 as amended: for Tt > Tr, p > 0 and initial_preload # 0 both methods return,
\* and they return the same torque exactly when initial_preload is
\* calculate_preload(Tt, Tr, p), or desired_preload = 0, or Tt = 0 (then both are 0)
C24_AgreeOnConsistentOrZero ==
    \A i, j \in Idx :
        BothMethods(i, j) =>
            /\ hist[i].out = "ok" /\ hist[j].out = "ok"
            /\ hist[i].val = hist[j].val <=>
                   \/ ConsistentPreload(hist[i])
                   \/ hist[i].args[4] = Zero
                   \/ hist[i].args[1] = Zero
            /\ hist[i].args[4] = Zero \/ hist[i].args[1] = Zero =>
                   hist[i].val[1] = Zero /\ hist[j].val[1] = Zero

\* an initial_preload that calculate_preload did not produce, with a desired preload
\* and a torque that are not 0: the two methods return different torques
C24_Witness ==
    /\ Len(hist) = 2
    /\ BothMethods(1, 2)
    /\ ~ConsistentPreload(hist[1])
    /\ hist[1].args[4] # Zero /\ hist[1].args[1] # Zero
    /\ hist[1].out = "ok" /\ hist[2].out = "ok"
    /\ hist[1].val # hist[2].val

\* C25: the pair returned by calculate_preload_range and by calculate_torque_range
\* is in (min, max) order: its first value is <= its second, for every preload,
\* uncertainty_percent and nominal_torque
C25_RangeIsOrdered ==
    \A i \in Idx :
        /\ IsCall(i, "calculate_preload_range") \/ IsCall(i, "calculate_torque_range")
        /\ hist[i].out = "ok"
        => RLe(hist[i].val[1], hist[i].val[2])

\* C26: for every accepted input (safety_factor >= 0, any min_safety_factor) the
\* risk level of assess_risk is one of Low, Medium, High, never Critical
C26_ThreeBands ==
    \A i \in Idx :
        IsCall(i, "assess_risk") =>
            IF RGe(hist[i].args[1], Zero)
            THEN /\ hist[i].out = "ok"
                 /\ hist[i].val[1] \in {"Low", "Medium", "High"}
                 /\ hist[i].val[1] # "Critical"
            ELSE hist[i].out # "ok"

\* a safety factor of at most 1.0, which the example code calls Critical, is High
C26_Witness ==
    \E i \in Idx :
        /\ IsCall(i, "assess_risk")
        /\ RGe(hist[i].args[1], Zero) /\ RLe(hist[i].args[1], R(1, 1))
        /\ Len(hist[i].args) = 2
        /\ hist[i].out = "ok"
        /\ hist[i].val[1] = "High"

\* the risk level of a row of the implant-systems comparison: assess_risk with its
\* default threshold on the safety factor calculate_safety_factor has just returned
ComparisonRow(i) ==
    /\ i > 1
    /\ IsCall(i, "assess_risk")
    /\ Len(hist[i].args) = 1
    /\ IsCall(i - 1, "calculate_safety_factor")
    /\ hist[i - 1].out = "ok"
    /\ hist[i].args[1] = hist[i - 1].val[1]

\* C27: the risk levels of the implant-systems comparison follow the legend it
\* prints: Low for a safety factor > 3.0, Medium for 1.5 < safety factor <= 3.0,
\* High for safety factor <= 1.5 (so exactly 1.5 is High)
C27_RiskFollowsLegend ==
    \A i \in Idx :
        ComparisonRow(i) =>
            hist[i].out = "ok" /\ hist[i].val[1] = RiskLegend(hist[i].args[1])

\* the final torque for a desired preload, computed with the exact method on
\* initial_preload = calculate_preload(Tt, Tr, p), with Tt > Tr, Tt # 0 and p > 0
FinalTorqueOfPreload ==
    /\ FromPreload
    /\ ~FlagOf(hist[2])
    /\ hist[1].args[1] # Zero
    /\ RGt(hist[1].args[3], Zero)
    /\ hist[2].args = <<hist[1].args[1], hist[1].args[2], hist[1].val[1],
                        hist[2].args[4], hist[1].args[3]>>

\* ... followed by calculate_preload(Tf, Tf * Tr / Tt, p)
PreloadAtFinalTorque ==
    /\ FinalTorqueOfPreload
    /\ Len(hist) = 3
    /\ IsCall(3, "calculate_preload")
    /\ hist[3].args[1] = hist[2].val[1]

\* C28: for Tt > Tr, Tt # 0, p > 0 and any desired preload Pd, the final torque Tf
\* of the exact method on initial_preload = calculate_preload(Tt, Tr, p) satisfies
\* calculate_preload(Tf, Tf * Tr / Tt, p) = Pd; Pd = initial_preload gives Tf = Tt;
\* and for Tt > Tr >= 0, Tf > Tt exactly when Pd > initial_preload
C28_FinalTorqueReachesTarget ==
    /\ FinalTorqueOfPreload =>
           /\ hist[2].out = "ok"
           /\ hist[2].args[4] = hist[1].val[1] => hist[2].val[1] = hist[1].args[1]
           /\ RGe(hist[1].args[2], Zero) =>
                  (RGt(hist[2].val[1], hist[1].args[1])
                       <=> RGt(hist[2].args[4], hist[1].val[1]))
    /\ PreloadAtFinalTorque =>
           hist[3].out = "ok" /\ hist[3].val[1] = hist[2].args[4]

\* a desired preload above the initial one, reached at a final torque above Tt
C28_Witness ==
    /\ PreloadAtFinalTorque
    /\ RGt(hist[1].args[2], Zero)
    /\ RGt(hist[2].args[4], hist[1].val[1])
    /\ RGt(hist[2].val[1], hist[1].args[1])
    /\ hist[3].val[1] = hist[2].args[4]

\* the order of the risk levels: High above Medium above Low
RiskRank(level) == CASE level = "Low" -> 0 [] level = "Medium" -> 1 [] level = "High" -> 2

\* two accepted assessments against the same min_safety_factor, the safety factor
\* of i not larger than that of j
SameMinimum(i, j) ==
    /\ IsCall(i, "assess_risk") /\ IsCall(j, "assess_risk")
    /\ MinOf(hist[i]) = MinOf(hist[j])
    /\ RGe(hist[i].args[1], Zero)
    /\ RLe(hist[i].args[1], hist[j].args[1])

\* C29: for every fixed min_safety_factor and all 0 <= s1 <= s2, the risk level of
\* s2 is never higher than the risk level of s1
C29_RiskMonotone ==
    \A i, j \in Idx :
        SameMinimum(i, j) =>
            /\ hist[i].out = "ok" /\ hist[j].out = "ok"
            /\ RiskRank(hist[j].val[1]) <= RiskRank(hist[i].val[1])

\* a minimum above 3.0: High below it up to 3.0, Low above 3.0, nothing in between
C29_Witness ==
    /\ Len(hist) = 2
    /\ SameMinimum(1, 2)
    /\ RGt(MinOf(hist[1]), LowRiskAbove)
    /\ RLt(hist[1].args[1], hist[2].args[1])
    /\ hist[1].val[1] = "High" /\ hist[2].val[1] = "Low"

\* the session flag, false while the key is not set
Authenticated(a) == Has(a.session, "authenticated") /\ a.session["authenticated"]

SelectedPage(a) == IF Has(a.session, "page") THEN a.session["page"] ELSE "welcome"

\* the step is the Login button pressed with the configured password typed in
LoginAccepted ==
    /\ app.pc = "authentication"
    /\ app.event = Element("button", "login")
    /\ app.input = ConfiguredPassword

\* the step is the Logout button pressed
LogoutPressed == app.pc = "navigation" /\ app.event = Element("button", "logout")

\* what a step may do to the flag and to the selected page
GateStep ==
    /\ (~Has(app.session, "authenticated") /\ Has(app'.session, "authenticated"))
           => (~app'.session["authenticated"])
    /\ (~Authenticated(app) /\ Authenticated(app')) => LoginAccepted
    /\ (Authenticated(app) /\ ~Authenticated(app')) => LogoutPressed
    /\ (SelectedPage(app') # SelectedPage(app)) => Authenticated(app)

\* C30: the flag authenticated starts false, becomes true only by Login with the
\* configured password, becomes false only by Logout; a page, the navigation
\* buttons, the report button and the footer are on the screen of a run only if
\* authenticated is true; the selected page changes only while it is true
C30_PasswordGate ==
    /\ [](app.rendered \cap Gated # {} => Authenticated(app))
    /\ [][GateStep]_vars

\* after a login: a calculator page chosen in the navigation, with the footer
C30_Witness ==
    /\ app.pc = "waiting"
    /\ Authenticated(app)
    /\ SelectedPage(app) = "compare_methods"
    /\ Element("page", "compare_methods") \in app.rendered
    /\ Element("text", "footer") \in app.rendered
    /\ Element("button", "report") \in app.rendered

====
